---- MODULE Spec2Model ----
(***************************************************************************)
(* A model of retrosheet-buddy's interactive editor (RetrosheetEditor in  *)
(* src/retrosheet_buddy/editor.py): the count engine, the modal key       *)
(* dispatcher, the detail-mode builders, the undo log and the writer.     *)
(*                                                                         *)
(* Python strings are sequences of one-character strings, so that         *)
(* startswith, find, split and "in" are computed as the code computes     *)
(* them.  List indices are 0-based as in the source: play i of the game   *)
(* is plays[i + 1].  None is the string "None".                           *)
(***************************************************************************)
EXTENDS Integers, Sequences, FiniteSets, TLC

VARIABLES
    self        \* the RetrosheetEditor object: its attributes, the plays of the
                \* current game (self.event_file.games[0].plays, field plays)
                \* and the file last written by _save_current_state (field disk)

vars == <<self>>

None == "None"

\* "self.modifier_param_request = None": no parameter is being asked for
NoParamRequest == [code |-> <<>>, type |-> None]

(***************************************************************************)
(* Bounds of the model (not program constants).                            *)
(***************************************************************************)
\* longest pitch string a record may reach
MaxPitches == 5
\* longest result code a record may reach
MaxDesc == 12
\* longest undo log the model explores (the program's own cap is UndoLimit)
\* in Spec and SpecPitch ...
MaxUndo == 2
\* ... in SpecWildPitch ...
MaxUndoFlow == 3
\* ... and in SpecAtBat
MaxUndoAtBat == 4
\* longest fielder / token / modifier list a builder may reach
MaxList == 2

(***************************************************************************)
(* Strings.                                                                *)
(***************************************************************************)
DigitChars == <<"0", "1", "2", "3", "4", "5", "6", "7", "8", "9">>

IsDigit(c) == \E n \in 1..Len(DigitChars) : DigitChars[n] = c

\* int(c) for a one-character string that is a decimal digit
CharToInt(c) == (CHOOSE n \in 1..Len(DigitChars) : DigitChars[n] = c) - 1

\* str(n) for 0 <= n <= 9
IntToChar(n) == DigitChars[n + 1]

Min(a, b) == IF a <= b THEN a ELSE b

Contains(str, c) == \E i \in 1..Len(str) : str[i] = c

\* str.find(c): the 1-based index of the first c, 0 when there is none
Find(str, c) ==
    IF Contains(str, c)
    THEN CHOOSE i \in 1..Len(str) : str[i] = c /\ \A j \in 1..(i - 1) : str[j] # c
    ELSE 0

\* the 1-based index of the last c, 0 when there is none
FindLast(str, c) ==
    IF Contains(str, c)
    THEN CHOOSE i \in 1..Len(str) : str[i] = c /\ \A j \in (i + 1)..Len(str) : str[j] # c
    ELSE 0

StartsWith(str, pre) ==
    Len(str) >= Len(pre) /\ SubSeq(str, 1, Len(pre)) = pre

EndsWith(str, suf) ==
    Len(str) >= Len(suf) /\ SubSeq(str, Len(str) - Len(suf) + 1, Len(str)) = suf

RECURSIVE Join(_, _)
\* sep.join(parts) for a sequence of strings
Join(parts, sep) ==
    IF parts = <<>> THEN <<>>
    ELSE IF Len(parts) = 1 THEN parts[1]
    ELSE parts[1] \o sep \o Join(Tail(parts), sep)

RECURSIVE Digits(_)
\* "".join(str(f) for f in fielders)
Digits(fielders) ==
    IF fielders = <<>> THEN <<>>
    ELSE <<IntToChar(Head(fielders))>> \o Digits(Tail(fielders))

(***************************************************************************)
(* constants.py                                                            *)
(***************************************************************************)
NAVIGATION_KEYS == {"q", "left", "right", "down", "tab", "x", "-", "j"}

ENTER == "enter"

PITCH_HOTKEYS ==
    ("b" :> <<"B">>) @@ ("s" :> <<"S">>) @@ ("f" :> <<"F">>) @@ ("c" :> <<"C">>) @@
    ("t" :> <<"T">>) @@ ("m" :> <<"M">>) @@ ("p" :> <<"P">>) @@ ("i" :> <<"I">>) @@
    ("h" :> <<"H">>) @@ ("v" :> <<"V">>) @@ ("a" :> <<"A">>) @@ ("*" :> <<"Q">>) @@
    ("r" :> <<"R">>) @@ ("e" :> <<"E">>) @@ ("n" :> <<"N">>) @@ ("o" :> <<"O">>) @@
    ("k" :> <<"P", "K">>) @@ ("." :> <<"X">>) @@ ("u" :> <<"U">>)

PLAY_HOTKEYS ==
    ("o" :> "OUT") @@ ("1" :> "S") @@ ("2" :> "D") @@ ("3" :> "T") @@ ("4" :> "HR") @@
    ("p" :> "PO") @@ ("c" :> "POCS") @@ ("t" :> "CS") @@ ("b" :> "BK") @@
    ("d" :> "DI") @@ ("a" :> "PB") @@ ("w" :> "WP") @@ ("s" :> "SB") @@ ("l" :> "W") @@
    ("h" :> "HP") @@ ("e" :> "E") @@ ("i" :> "IW") @@ ("j" :> "CI") @@ ("0" :> "OA") @@
    (";" :> "ND") @@ ("f" :> "SF") @@ ("k" :> "SH")

HIT_TYPE_HOTKEYS ==
    ("g" :> "G") @@ ("l" :> "L") @@ ("f" :> "F") @@ ("p" :> "P") @@ ("b" :> "B")

FIELDING_POSITION_HOTKEYS ==
    ("1" :> 1) @@ ("2" :> 2) @@ ("3" :> 3) @@ ("4" :> 4) @@ ("5" :> 5) @@
    ("6" :> 6) @@ ("7" :> 7) @@ ("8" :> 8) @@ ("9" :> 9)

OUT_TYPE_HOTKEYS ==
    ("g" :> "G") @@ ("l" :> "L") @@ ("f" :> "F") @@ ("p" :> "P") @@ ("b" :> "B") @@
    ("s" :> "SF") @@ ("h" :> "SH") @@ ("k" :> "K") @@ ("c" :> "FC") @@ ("d" :> "DP") @@
    ("w" :> "GDP") @@ ("!" :> "LDP") @@ ("y" :> "TP") @@ ("z" :> "FO") @@ ("[" :> "UO")

\* a code of the tables above as a Python string
Chars(code) ==
    CASE code = "G" -> <<"G">> [] code = "L" -> <<"L">> [] code = "F" -> <<"F">>
      [] code = "P" -> <<"P">> [] code = "B" -> <<"B">> [] code = "K" -> <<"K">>
      [] code = "S" -> <<"S">> [] code = "D" -> <<"D">> [] code = "T" -> <<"T">>
      [] code = "E" -> <<"E">> [] code = "W" -> <<"W">> [] code = "C" -> <<"C">>
      [] code = "HR" -> <<"H", "R">> [] code = "HP" -> <<"H", "P">>
      [] code = "IW" -> <<"I", "W">> [] code = "CI" -> <<"C", "I">>
      [] code = "ND" -> <<"N", "D">> [] code = "OA" -> <<"O", "A">>
      [] code = "SF" -> <<"S", "F">> [] code = "SH" -> <<"S", "H">>
      [] code = "FC" -> <<"F", "C">> [] code = "DP" -> <<"D", "P">>
      [] code = "TP" -> <<"T", "P">> [] code = "FO" -> <<"F", "O">>
      [] code = "UO" -> <<"U", "O">> [] code = "PO" -> <<"P", "O">>
      [] code = "CS" -> <<"C", "S">> [] code = "BK" -> <<"B", "K">>
      [] code = "DI" -> <<"D", "I">> [] code = "PB" -> <<"P", "B">>
      [] code = "WP" -> <<"W", "P">> [] code = "SB" -> <<"S", "B">>
      [] code = "GDP" -> <<"G", "D", "P">> [] code = "LDP" -> <<"L", "D", "P">>
      [] code = "OUT" -> <<"O", "U", "T">> [] code = "POCS" -> <<"P", "O", "C", "S">>

\* every character a pitch key can add to a pitch string
PitchChars ==
    {"B", "S", "F", "C", "T", "M", "P", "I", "H", "V", "A", "Q", "R", "E", "N",
     "O", "K", "X", "U", "."}

(***************************************************************************)
(* Count engine.                                                           *)
(***************************************************************************)
\* the try/except that decodes start_count into (balls, strikes)
StartBallsStrikes(start_count) ==
    IF start_count = <<>> THEN <<0, 0>>
    ELSE IF ~IsDigit(start_count[1]) THEN <<0, 0>>            \* ValueError
    ELSE IF Len(start_count) < 2 THEN <<0, 0>>                \* IndexError
    ELSE IF ~IsDigit(start_count[2]) THEN <<0, 0>>            \* ValueError
    ELSE <<CharToInt(start_count[1]), CharToInt(start_count[2])>>

RECURSIVE CountLoop(_, _)
\* the for-loop of _calculate_count over the pitches, from bs = <<balls, strikes>>
CountLoop(pitches, bs) ==
    IF pitches = <<>> THEN bs
    ELSE LET pitch == Head(pitches)
             next == IF pitch = "B" THEN <<bs[1] + 1, bs[2]>>
                     ELSE IF pitch \in {"S", "C"} THEN <<bs[1], bs[2] + 1>>
                     ELSE IF pitch = "F"
                          THEN (IF bs[2] < 2 THEN <<bs[1], bs[2] + 1>> ELSE bs)
                     ELSE IF pitch = "T" THEN <<bs[1], bs[2] + 1>>
                     ELSE bs
         IN  CountLoop(Tail(pitches), next)

\* the display count without the caps of 3 balls and 2 strikes
_calculate_count_uncapped(pitches, start_count) ==
    LET bs == CountLoop(pitches, StartBallsStrikes(start_count))
    IN  <<IntToChar(bs[1]), IntToChar(bs[2])>>

_calculate_count(pitches, start_count) ==
    LET bs == CountLoop(pitches, StartBallsStrikes(start_count))
    IN  <<IntToChar(Min(bs[1], 3)), IntToChar(Min(bs[2], 2))>>

RECURSIVE RawLoopEveryFoul(_, _)
\* the loop with every foul counted as a strike
RawLoopEveryFoul(pitches, bs) ==
    IF pitches = <<>> THEN bs
    ELSE LET pitch == Head(pitches)
             next == IF pitch = "B" THEN <<bs[1] + 1, bs[2]>>
                     ELSE IF pitch \in {"S", "C", "F", "T"} THEN <<bs[1], bs[2] + 1>>
                     ELSE bs
         IN  RawLoopEveryFoul(Tail(pitches), next)

RECURSIVE RawLoop(_, _)
\* the for-loop of _calculate_raw_balls_strikes
RawLoop(pitches, bs) ==
    IF pitches = <<>> THEN bs
    ELSE LET pitch == Head(pitches)
             next == IF pitch = "B" THEN <<bs[1] + 1, bs[2]>>
                     ELSE IF pitch \in {"S", "C"} THEN <<bs[1], bs[2] + 1>>
                     ELSE IF pitch = "F"
                          THEN (IF bs[2] < 2 THEN <<bs[1], bs[2] + 1>> ELSE bs)
                     ELSE IF pitch = "T" THEN <<bs[1], bs[2] + 1>>
                     ELSE bs
         IN  RawLoop(Tail(pitches), next)

_calculate_raw_balls_strikes(pitches, start_count) ==
    RawLoop(pitches, StartBallsStrikes(start_count))

_starting_count_for_play_index(plays, play_index) ==
    IF play_index <= 0 THEN <<"0", "0">>
    ELSE LET prior == plays[play_index]
             current == plays[play_index + 1]
         IN  IF /\ prior.inning = current.inning
                /\ prior.team = current.team
                /\ prior.batter_id = current.batter_id
             THEN (IF prior.count = <<>> THEN <<"0", "0">> ELSE prior.count)
             ELSE <<"0", "0">>

RECURSIVE StrikeoutLoop(_, _)
\* the for-loop of _has_strikeout, returning as soon as strikes >= 3
StrikeoutLoop(pitches, strikes) ==
    IF pitches = <<>> THEN FALSE
    ELSE LET pitch == Head(pitches)
             next == IF pitch \in {"S", "C"} THEN strikes + 1
                     ELSE IF pitch = "F"
                          THEN (IF strikes < 2 THEN strikes + 1 ELSE strikes)
                     ELSE IF pitch = "T" THEN strikes + 1
                     ELSE strikes
         IN  IF next >= 3 THEN TRUE ELSE StrikeoutLoop(Tail(pitches), next)

_has_strikeout(pitches) == StrikeoutLoop(pitches, 0)

(***************************************************************************)
(* The editor object.                                                      *)
(***************************************************************************)
\* a Play of models.py; the writer's view of it is in _write_game
Play(inning, team, batter_id, count, original_count, pitches, play_description) ==
    [inning |-> inning, team |-> team, batter_id |-> batter_id, count |-> count,
     original_count |-> original_count, pitches |-> pitches,
     play_description |-> play_description, edited |-> FALSE]

\* RetrosheetWriter._write_game that always writes the count of the file
_write_game_original_count(plays) ==
    [i \in 1..Len(plays) |->
        [count |-> plays[i].original_count, pitches |-> plays[i].pitches,
         play_description |-> plays[i].play_description]]

\* RetrosheetWriter._write_game: the play lines of the output file
_write_game(plays) ==
    [i \in 1..Len(plays) |->
        LET play == plays[i]
            count_to_write ==
                IF /\ play.original_count = <<"?", "?">>
                   /\ play.edited
                   /\ play.play_description # <<>>
                THEN play.count
                ELSE (IF play.original_count # None
                      THEN play.original_count ELSE play.count)
        IN  [count |-> count_to_write, pitches |-> play.pitches,
             play_description |-> play.play_description]]

\* RetrosheetEditor.__init__, for a game with the given plays; the attributes
\* _enter_detail_mode creates on first use start at the values it gives them
NewEditor(plays) ==
    [plays |-> plays,
     disk |-> <<>>,
     current_play_index |-> 0,
     mode |-> "pitch",
     detail_mode_result |-> None,
     detail_mode_hit_type |-> None,
     detail_mode_fielders |-> <<>>,
     detail_mode_out_type |-> None,
     modifier_selection_active |-> FALSE,
     selected_modifier_group |-> None,
     selected_modifiers |-> <<>>,
     modifier_param_request |-> NoParamRequest,
     current_modifier_options_keymap |-> <<>>,
     modifiers_live_applied |-> FALSE,
     hit_location_active |-> FALSE,
     hit_location_positions |-> <<>>,
     hit_location_suffix |-> <<>>,
     hit_location_depth |-> <<>>,
     hit_location_foul |-> FALSE,
     advance_runner_active |-> FALSE,
     advance_runner_from_base |-> None,
     advance_runner_tokens |-> <<>>,
     undo_history |-> <<>>,
     detail_mode_from_pitch_pb_wp |-> FALSE,
     detail_mode_pb_wp_code |-> None,
     detail_pickoff_base |-> None,
     detail_pickoff_fielders |-> <<>>,
     detail_pickoff_error_fielder |-> 0,           \* 0 stands for None
     detail_pickoff_awaiting_error_fielder |-> FALSE,
     runner_tokens |-> <<>>,
     advance_from_base |-> None,
     oa_stage |-> "choose_runner",
     oa_from_base |-> None,
     oa_out |-> FALSE,
     oa_dest |-> None,
     oa_fielders |-> <<>>,
     sb_targets |-> {}]

\* the current play of editor state s
CurrentPlay(s) == s.plays[s.current_play_index + 1]

\* s with field f of its current play set to v
SetPlay(s, play) == [s EXCEPT !.plays[s.current_play_index + 1] = play]

\* the program's cap on the undo log (editor.py line 1502)
UndoLimit == 10

_save_current_state(s) == [s EXCEPT !.disk = _write_game(s.plays)]

\* _save_state_for_undo without the limit of the log
_save_state_for_undo_unlimited(s) ==
    [s EXCEPT !.undo_history =
        Append(@, <<0, s.current_play_index, CurrentPlay(s).pitches,
                    CurrentPlay(s).play_description>>)]

_save_state_for_undo(s) ==
    LET state == <<0, s.current_play_index, CurrentPlay(s).pitches,
                   CurrentPlay(s).play_description>>
        hist == Append(s.undo_history, state)
    IN  [s EXCEPT !.undo_history =
            IF Len(hist) > UndoLimit THEN Tail(hist) ELSE hist]

\* _reset_detail_mode that keeps the fielders of the out and hit builders
_reset_detail_mode_keeping_fielders(s) ==
    [s EXCEPT
        !.detail_mode_result = None,
        !.detail_mode_hit_type = None,
        !.detail_mode_out_type = None,
        !.modifier_selection_active = FALSE,
        !.selected_modifier_group = None,
        !.selected_modifiers = <<>>,
        !.modifier_param_request = NoParamRequest,
        !.current_modifier_options_keymap = <<>>,
        !.modifiers_live_applied = FALSE,
        !.detail_pickoff_base = None,
        !.detail_pickoff_fielders = <<>>,
        !.detail_pickoff_error_fielder = 0,
        !.detail_pickoff_awaiting_error_fielder = FALSE,
        !.runner_tokens = <<>>,
        !.advance_from_base = None,
        !.oa_stage = "choose_runner",
        !.oa_from_base = None,
        !.oa_out = FALSE,
        !.oa_dest = None,
        !.oa_fielders = <<>>,
        !.sb_targets = {},
        !.advance_runner_active = FALSE,
        !.advance_runner_from_base = None,
        !.advance_runner_tokens = <<>>]

_reset_detail_mode(s) ==
    [s EXCEPT
        !.detail_mode_result = None,
        !.detail_mode_hit_type = None,
        !.detail_mode_out_type = None,
        !.detail_mode_fielders = <<>>,
        !.modifier_selection_active = FALSE,
        !.selected_modifier_group = None,
        !.selected_modifiers = <<>>,
        !.modifier_param_request = NoParamRequest,
        !.current_modifier_options_keymap = <<>>,
        !.modifiers_live_applied = FALSE,
        !.detail_pickoff_base = None,
        !.detail_pickoff_fielders = <<>>,
        !.detail_pickoff_error_fielder = 0,
        !.detail_pickoff_awaiting_error_fielder = FALSE,
        !.runner_tokens = <<>>,
        !.advance_from_base = None,
        !.oa_stage = "choose_runner",
        !.oa_from_base = None,
        !.oa_out = FALSE,
        !.oa_dest = None,
        !.oa_fielders = <<>>,
        !.sb_targets = {},
        !.advance_runner_active = FALSE,
        !.advance_runner_from_base = None,
        !.advance_runner_tokens = <<>>]

_start_modifier_detail_mode(s) ==
    [s EXCEPT
        !.modifier_selection_active = TRUE,
        !.selected_modifier_group = None,
        !.selected_modifiers = <<>>,
        !.modifier_param_request = NoParamRequest,
        !.current_modifier_options_keymap = <<>>,
        !.modifiers_live_applied = TRUE]

_enter_detail_mode(s, result) ==
    [s EXCEPT
        !.detail_mode_result = result,
        !.detail_mode_hit_type = None,
        !.mode = "detail",
        !.modifier_selection_active = FALSE,
        !.selected_modifier_group = None,
        !.selected_modifiers = <<>>,
        !.modifier_param_request = NoParamRequest,
        !.current_modifier_options_keymap = <<>>,
        !.modifiers_live_applied = FALSE,
        !.detail_pickoff_base = None,
        !.detail_pickoff_fielders = <<>>,
        !.detail_pickoff_error_fielder = 0,
        !.detail_pickoff_awaiting_error_fielder = FALSE,
        !.runner_tokens = <<>>,
        !.advance_from_base = None,
        !.oa_stage = "choose_runner",
        !.oa_from_base = None,
        !.oa_out = FALSE,
        !.oa_dest = None,
        !.oa_fielders = <<>>,
        !.sb_targets = {}]

(***************************************************************************)
(* Navigation.                                                             *)
(***************************************************************************)
\* _auto_set_mode_after_navigation that keeps the builder state when the
\* navigation leaves detail mode
_auto_set_mode_keeping_builder(s, prior_mode) ==
    [s EXCEPT !.mode =
        IF CurrentPlay(s).pitches = <<>> THEN "pitch"
        ELSE IF CurrentPlay(s).play_description = <<>> THEN "play"
        ELSE prior_mode]

_auto_set_mode_after_navigation(s, prior_mode) ==
    LET current_play == CurrentPlay(s)
        desired_mode ==
            IF current_play.pitches = <<>> THEN "pitch"
            ELSE IF current_play.play_description = <<>> THEN "play"
            ELSE prior_mode
    IN  IF desired_mode # s.mode
        THEN [(IF s.mode = "detail" /\ desired_mode \in {"pitch", "play"}
               THEN _reset_detail_mode(s) ELSE s)
              EXCEPT !.mode = desired_mode]
        ELSE s

_previous_play(s) ==
    IF s.current_play_index > 0
    THEN _auto_set_mode_after_navigation(
            [s EXCEPT !.current_play_index = s.current_play_index - 1], s.mode)
    ELSE s

_next_play(s) ==
    IF s.current_play_index < Len(s.plays) - 1
    THEN _auto_set_mode_after_navigation(
            [s EXCEPT !.current_play_index = s.current_play_index + 1], s.mode)
    ELSE s

\* _jump_to_play once the user has typed play_number at its prompt
_jump_to_play(s, play_number) ==
    IF 1 <= play_number /\ play_number <= Len(s.plays)
    THEN _auto_set_mode_after_navigation(
            [s EXCEPT !.current_play_index = play_number - 1], s.mode)
    ELSE s

is_incomplete(play) ==
    \/ play.count = <<"?", "?">>
    \/ play.original_count = <<"?", "?">>
    \/ play.pitches = <<>>
    \/ play.play_description = <<>>

\* _next_incomplete_play that never searches before the current record
_next_incomplete_play_forward(s) ==
    LET later == {i \in s.current_play_index + 1..Len(s.plays) - 1 :
                    is_incomplete(s.plays[i + 1])}
    IN  IF later = {} THEN s
        ELSE _auto_set_mode_after_navigation(
                [s EXCEPT !.current_play_index =
                    CHOOSE i \in later : \A j \in later : i <= j], s.mode)

_next_incomplete_play(s) ==
    LET n == Len(s.plays)
        start_index == s.current_play_index + 1
        \* the indices in the order the two loops visit them
        order == [k \in 1..n |->
                    IF start_index + k - 1 <= n - 1 THEN start_index + k - 1
                    ELSE k - 1 - (n - start_index)]
        hits == {k \in 1..n : is_incomplete(s.plays[order[k] + 1])}
    IN  IF hits = {} THEN s
        ELSE LET k == CHOOSE h \in hits : \A g \in hits : h <= g
             IN  _auto_set_mode_after_navigation(
                    [s EXCEPT !.current_play_index = order[k]], s.mode)

(***************************************************************************)
(* Pitch and result entry, undo, clear.                                    *)
(***************************************************************************)
\* the count of the current play recomputed from its pitches
Recount(s) ==
    [CurrentPlay(s) EXCEPT !.count =
        _calculate_count(CurrentPlay(s).pitches,
            _starting_count_for_play_index(s.plays, s.current_play_index))]

\* the branch with the key's own letter appended to the pitches
AddPitchPbWpLetter(s0, pitch) ==
    LET s1 == SetPlay(s0, [CurrentPlay(s0) EXCEPT !.pitches = @ \o pitch])
        s2 == SetPlay(s1, [Recount(s1) EXCEPT !.edited = TRUE])
        code == IF pitch = <<"V">> THEN "WP" ELSE "PB"
        s3 == [s2 EXCEPT !.detail_mode_from_pitch_pb_wp = TRUE,
                         !.detail_mode_pb_wp_code = code]
    IN  _enter_detail_mode(_save_current_state(s3), code)

\* _add_pitch for "V" and "A" (the wild pitch / passed ball branch)
AddPitchPbWp(s0, pitch) ==
    LET s1 == SetPlay(s0, [CurrentPlay(s0) EXCEPT !.pitches = @ \o <<".">>])
        s2 == SetPlay(s1, [Recount(s1) EXCEPT !.edited = TRUE])
        code == IF pitch = <<"V">> THEN "WP" ELSE "PB"
        s3 == [s2 EXCEPT !.detail_mode_from_pitch_pb_wp = TRUE,
                         !.detail_mode_pb_wp_code = code]
    IN  _enter_detail_mode(_save_current_state(s3), code)

\* the automatic walk / strikeout check at the end of _add_pitch
AutoWalkStrikeout(s) ==
    LET current_play == CurrentPlay(s)
        start_count == _starting_count_for_play_index(s.plays, s.current_play_index)
        raw == _calculate_raw_balls_strikes(current_play.pitches, start_count)
        existing == current_play.play_description
    IN  IF raw[1] >= 4
        THEN _next_play(_save_current_state(SetPlay(s,
                [current_play EXCEPT
                    !.play_description = <<"W">>,
                    !.count = <<"3", IntToChar(Min(raw[2], 2))>>,
                    !.edited = TRUE])))
        ELSE IF _has_strikeout(current_play.pitches)
        THEN _save_current_state(SetPlay(s,
                [current_play EXCEPT
                    !.play_description =
                        IF existing # <<>> /\ ~StartsWith(existing, <<"K">>)
                        THEN <<"K">> \o existing ELSE <<"K">>,
                    !.edited = TRUE]))
        ELSE _save_current_state(s)

_add_pitch(s, pitch) ==
    LET s0 == _save_state_for_undo(s)
    IN  IF pitch \in {<<"V">>, <<"A">>}
        THEN AddPitchPbWp(s0, pitch)
        ELSE LET s1 == SetPlay(s0, [CurrentPlay(s0) EXCEPT !.pitches = @ \o pitch])
                 s2 == SetPlay(s1, [Recount(s1) EXCEPT !.edited = TRUE])
             IN  AutoWalkStrikeout(s2)

\* _generate_retrosheet_play_description(result) with no fielding position
_generate_retrosheet_play_description(result) ==
    CASE result = "S" -> <<"S", "8", "/", "G", "6">>
      [] result = "D" -> <<"D", "7", "/", "L", "7">>
      [] result = "T" -> <<"T", "8", "/", "L", "8">>
      [] result = "HR" -> <<"H", "R", "/", "F", "7">>
      [] result = "E" -> <<"E", "6", "/", "G", "6">>
      [] result = "FC" -> <<"F", "C", "6", "/", "G", "6">>
      [] result = "DP" -> <<"D", "P", "/", "G", "6">>
      [] result = "TP" -> <<"T", "P", "/", "G", "6">>
      [] result = "SF" -> <<"S", "F", "8", "/", "F", "8">>
      [] result = "SH" -> <<"S", "H", "1", "/", "G", "1">>
      [] result = "OUT" -> <<"G", "6">>
      [] result = "GDP" -> <<"G", "6", "/", "G", "D", "P", "/", "G", "6">>
      [] result = "LDP" -> <<"L", "6", "/", "L", "D", "P", "/", "L", "6">>
      [] result = "FO" -> <<"G", "6", "/", "F", "O", "/", "G", "6">>
      [] result = "UO" -> <<"G", "6", "/", "U", "O", "/", "G", "6">>
      [] OTHER -> Chars(result)

_set_play_result(s, result) ==
    LET s0 == _save_state_for_undo(s)
    IN  _save_current_state(SetPlay(s0,
            [CurrentPlay(s0) EXCEPT
                !.play_description = _generate_retrosheet_play_description(result),
                !.edited = TRUE]))

\* _ensure_ball_in_play_marker that appends the marker without looking for one
_ensure_ball_in_play_marker_always(s) ==
    LET s1 == SetPlay(s, [CurrentPlay(s) EXCEPT !.pitches = @ \o <<"X">>])
    IN  SetPlay(s1, [Recount(s1) EXCEPT !.edited = TRUE])

_ensure_ball_in_play_marker(s) ==
    IF ~Contains(CurrentPlay(s).pitches, "X")
    THEN LET s1 == SetPlay(s, [CurrentPlay(s) EXCEPT !.pitches = @ \o <<"X">>])
         IN  SetPlay(s1, [Recount(s1) EXCEPT !.edited = TRUE])
    ELSE s

_mark_ball_in_play_and_switch(s) ==
    [_save_current_state(_ensure_ball_in_play_marker(_save_state_for_undo(s)))
        EXCEPT !.mode = "play"]

\* _undo_last_action that also goes back to the record of the snapshot
_undo_last_action_moving(s) ==
    IF s.undo_history = <<>> THEN s
    ELSE LET state == s.undo_history[Len(s.undo_history)]
             play_index == state[2]
             s1 == [s EXCEPT
                      !.undo_history = SubSeq(@, 1, Len(@) - 1),
                      !.current_play_index = play_index,
                      !.plays[play_index + 1].pitches = state[3],
                      !.plays[play_index + 1].play_description = state[4],
                      !.plays[play_index + 1].edited = FALSE]
             s2 == [s1 EXCEPT !.plays[play_index + 1].count =
                      _calculate_count(s1.plays[play_index + 1].pitches,
                          _starting_count_for_play_index(s1.plays, play_index))]
         IN  _save_current_state(s2)

_undo_last_action(s) ==
    IF s.undo_history = <<>> THEN s
    ELSE LET state == s.undo_history[Len(s.undo_history)]
             play_index == state[2]
             s1 == [s EXCEPT
                      !.undo_history = SubSeq(@, 1, Len(@) - 1),
                      !.plays[play_index + 1].pitches = state[3],
                      !.plays[play_index + 1].play_description = state[4],
                      !.plays[play_index + 1].edited = FALSE]
             s2 == [s1 EXCEPT !.plays[play_index + 1].count =
                      _calculate_count(s1.plays[play_index + 1].pitches,
                          _starting_count_for_play_index(s1.plays, play_index))]
         IN  _save_current_state(s2)

_clear_pitches(s) ==
    LET s0 == _save_state_for_undo(s)
        s1 == SetPlay(s0, [CurrentPlay(s0) EXCEPT !.pitches = <<>>])
    IN  _save_current_state(SetPlay(s1, [Recount(s1) EXCEPT !.edited = TRUE]))

_clear_play_result(s) ==
    LET s0 == _save_state_for_undo(s)
        s1 == SetPlay(s0, [CurrentPlay(s0) EXCEPT
                             !.play_description = <<>>, !.edited = TRUE])
    IN  _save_current_state(_reset_detail_mode(s1))

(***************************************************************************)
(* Detail mode: the builders.                                              *)
(***************************************************************************)
\* f"{code}{fielder}/{hit_type}" of _generate_detailed_play_description for a
\* hit, error or sacrifice; fielding_position 0 means no fielder
HitDescription(result, hit_type, fielding_position) ==
    IF result = "HR" THEN <<"H", "R", "/">> \o Chars(hit_type)
    ELSE Chars(result)
         \o (IF fielding_position <= 0 THEN <<>> ELSE <<IntToChar(fielding_position)>>)
         \o <<"/">> \o Chars(hit_type)

\* the out branch that writes the category after the subtype even when the two
\* are the same code
OutDescriptionCategoryAlways(result, out_type, fielders_list) ==
    LET fielder_string == Digits(fielders_list)
        tokens == <<fielder_string>>
                  \o (IF out_type # None THEN <<Chars(out_type)>> ELSE <<>>)
                  \o (IF result \in {"FO", "UO", "GDP", "LDP", "TP"}
                      THEN <<Chars(result)>> ELSE <<>>)
    IN  IF out_type = "K" THEN <<"K">> \o fielder_string
        ELSE Join(tokens, <<"/">>)

\* the out branch of _generate_detailed_play_description
OutDescription(result, out_type, fielders_list) ==
    LET fielder_string == Digits(fielders_list)
        fielding_position == IF fielders_list # <<>> THEN fielders_list[1] ELSE 0
        first == IF fielder_string # <<>> THEN fielder_string
                 ELSE <<IntToChar(fielding_position)>>
        tokens == <<first>>
                  \o (IF out_type # None THEN <<Chars(out_type)>> ELSE <<>>)
                  \o (IF result \in {"FO", "UO", "GDP", "LDP", "TP"} /\ result # out_type
                      THEN <<Chars(result)>> ELSE <<>>)
    IN  IF out_type = "K" THEN <<"K">> \o fielder_string
        ELSE Join(tokens, <<"/">>)

_generate_detailed_play_description(result, hit_type, fielders) ==
    IF result \in {"S", "D", "T", "HR", "E", "FC", "SF", "SH"}
    THEN HitDescription(result, hit_type,
            IF fielders # <<>> THEN fielders[1] ELSE 0)
    ELSE IF result \in {"OUT", "GDP", "LDP", "TP", "FO", "UO"}
    THEN OutDescription(result, hit_type, fielders)
    ELSE _generate_retrosheet_play_description(result)

\* existing[suffix_idx:] for suffix_idx = existing.find("+"), "" when -1
PlusSuffix(existing) ==
    IF Find(existing, "+") = 0 THEN <<>>
    ELSE SubSeq(existing, Find(existing, "+"), Len(existing))

\* the Hit Location builder opened after an out or a hit is saved
OpenHitLocation(s) ==
    [_start_modifier_detail_mode(s) EXCEPT
        !.selected_modifier_group = "h",
        !.hit_location_active = TRUE,
        !.hit_location_positions = <<>>,
        !.hit_location_suffix = <<>>,
        !.hit_location_depth = <<>>,
        !.hit_location_foul = FALSE]

\* the pickoff branch that asks for a base only
SavePickoffBaseOnly(s) ==
    LET seq == Digits(s.detail_pickoff_fielders)
        desc ==
            Chars(s.detail_mode_result) \o <<s.detail_pickoff_base, "(">>
            \o (IF s.detail_mode_result = "PO" /\ s.detail_pickoff_error_fielder # 0
                THEN <<"E", IntToChar(s.detail_pickoff_error_fielder)>>
                ELSE seq)
            \o <<")">>
        s0 == _save_state_for_undo(s)
        s1 == SetPlay(s0, [CurrentPlay(s0) EXCEPT
                             !.play_description = desc, !.edited = TRUE])
    IN  IF s.detail_pickoff_base = None THEN s
        ELSE [_reset_detail_mode(_save_current_state(s1)) EXCEPT !.mode = "pitch"]

\* the pickoff branch of _save_detail_mode_result (PO, POCS, CS)
SavePickoff(s) ==
    LET seq == Digits(s.detail_pickoff_fielders)
        desc ==
            Chars(s.detail_mode_result) \o <<s.detail_pickoff_base, "(">>
            \o (IF s.detail_mode_result = "PO" /\ s.detail_pickoff_error_fielder # 0
                THEN <<"E", IntToChar(s.detail_pickoff_error_fielder)>>
                ELSE seq)
            \o <<")">>
        missing ==
            \/ s.detail_pickoff_base = None
            \/ /\ s.detail_mode_result = "PO"
               /\ s.detail_pickoff_error_fielder = 0
               /\ s.detail_pickoff_fielders = <<>>
            \/ /\ s.detail_mode_result \in {"POCS", "CS"}
               /\ s.detail_pickoff_fielders = <<>>
        s0 == _save_state_for_undo(s)
        s1 == SetPlay(s0, [CurrentPlay(s0) EXCEPT
                             !.play_description = desc, !.edited = TRUE])
    IN  IF missing THEN s
        ELSE [_reset_detail_mode(_save_current_state(s1)) EXCEPT !.mode = "pitch"]

\* the runner advancement branch (BK, DI, PB, WP, SB, OA)
SaveRunnerAdvance(s) ==
    LET s0 == _save_state_for_undo(s)
        current_play == CurrentPlay(s0)
        parts == SelectSeq(<<"2", "3", "H">>, LAMBDA b : b \in s0.sb_targets)
        sb_desc == Join([i \in 1..Len(parts) |-> <<"S", "B", parts[i]>>], <<";">>)
        tokens == Join(s0.runner_tokens, <<";">>)
        desc ==
            IF s0.detail_mode_result = "SB" THEN sb_desc
            ELSE IF /\ s0.detail_mode_result \in {"PB", "WP"}
                    /\ s0.detail_mode_from_pitch_pb_wp
            THEN current_play.play_description
                 \o <<"+">> \o Chars(s0.detail_mode_result) \o <<".">> \o tokens
            ELSE Chars(s0.detail_mode_result) \o <<".">> \o tokens
        s1 == SetPlay(s0, [current_play EXCEPT
                             !.play_description = desc, !.edited = TRUE])
    IN  IF s0.detail_mode_result = "SB" /\ s0.sb_targets = {} THEN s0
        ELSE IF s0.detail_mode_result # "SB" /\ s0.runner_tokens = <<>> THEN s0
        ELSE [_reset_detail_mode(_save_current_state(s1)) EXCEPT
                !.mode = "pitch",
                !.detail_mode_from_pitch_pb_wp = FALSE,
                !.detail_mode_pb_wp_code = None]

\* the commit shared by the out, sacrifice and hit branches: the new primary
\* result before any "+..." suffix, the ball-in-play marker, the save
CommitPrimary(s, play_description, mark_in_play) ==
    LET s0 == _save_state_for_undo(s)
        s1 == SetPlay(s0, [CurrentPlay(s0) EXCEPT !.play_description =
                  play_description \o PlusSuffix(CurrentPlay(s0).play_description)])
        s2 == IF mark_in_play THEN _ensure_ball_in_play_marker(s1) ELSE s1
    IN  _save_current_state(SetPlay(s2, [CurrentPlay(s2) EXCEPT !.edited = TRUE]))

_save_detail_mode_result(s) ==
    IF s.detail_mode_result \in {"PO", "POCS", "CS"} THEN SavePickoff(s)
    ELSE IF s.detail_mode_result \in {"BK", "DI", "PB", "WP", "SB", "OA"}
    THEN SaveRunnerAdvance(s)
    ELSE IF s.detail_mode_result \in {"OUT", "GDP", "LDP", "TP", "FO", "UO"}
    THEN IF s.detail_mode_out_type # None /\ s.detail_mode_fielders # <<>>
         THEN OpenHitLocation(CommitPrimary(s,
                _generate_detailed_play_description(s.detail_mode_result,
                    s.detail_mode_out_type, s.detail_mode_fielders),
                s.detail_mode_out_type # "K"))
         ELSE s
    ELSE IF s.detail_mode_result \in {"SF", "SH"}
    THEN IF s.detail_mode_hit_type # None /\ s.detail_mode_fielders # <<>>
         THEN [_start_modifier_detail_mode(CommitPrimary(s,
                  _generate_detailed_play_description(s.detail_mode_result,
                      s.detail_mode_hit_type, <<s.detail_mode_fielders[1]>>),
                  TRUE))
               EXCEPT !.selected_modifier_group = "r",
                      !.advance_runner_active = TRUE,
                      !.advance_runner_from_base = None]
         ELSE s
    ELSE IF s.detail_mode_result # None /\ s.detail_mode_hit_type # None
         THEN OpenHitLocation(CommitPrimary(s,
                _generate_detailed_play_description(s.detail_mode_result,
                    s.detail_mode_hit_type,
                    IF s.detail_mode_fielders # <<>>
                    THEN <<s.detail_mode_fielders[1]>> ELSE <<>>),
                TRUE))
         ELSE s

\* the out builder's keys (OUT, GDP, LDP, TP, FO, UO)
OutBuilderInput(s, key) ==
    IF s.detail_mode_out_type = None /\ key \in DOMAIN OUT_TYPE_HOTKEYS
    THEN [s EXCEPT !.detail_mode_out_type = OUT_TYPE_HOTKEYS[key]]
    ELSE IF s.detail_mode_out_type # None /\ key \in DOMAIN FIELDING_POSITION_HOTKEYS
    THEN [s EXCEPT !.detail_mode_fielders = Append(@, FIELDING_POSITION_HOTKEYS[key])]
    ELSE s

\* the pickoff builder's keys (PO, POCS, CS)
PickoffBuilderInput(s, key) ==
    IF s.detail_pickoff_base = None
    THEN IF key \in {"1", "2", "3"} /\ s.detail_mode_result = "PO"
         THEN [s EXCEPT !.detail_pickoff_base = key]
         ELSE IF key \in {"2", "3", "4"} /\ s.detail_mode_result \in {"POCS", "CS"}
         THEN [s EXCEPT !.detail_pickoff_base = IF key = "4" THEN "H" ELSE key]
         ELSE s
    ELSE IF /\ s.detail_mode_result = "PO"
            /\ s.detail_pickoff_awaiting_error_fielder
            /\ key \in DOMAIN FIELDING_POSITION_HOTKEYS
    THEN [s EXCEPT !.detail_pickoff_error_fielder = FIELDING_POSITION_HOTKEYS[key],
                   !.detail_pickoff_awaiting_error_fielder = FALSE]
    ELSE IF /\ s.detail_mode_result = "PO"
            /\ key = "e"
            /\ s.detail_pickoff_error_fielder = 0
    THEN [s EXCEPT !.detail_pickoff_awaiting_error_fielder = TRUE]
    ELSE IF key \in DOMAIN FIELDING_POSITION_HOTKEYS
    THEN [s EXCEPT !.detail_pickoff_fielders = Append(@, FIELDING_POSITION_HOTKEYS[key])]
    ELSE s

\* the stolen base builder whose keys add a base and never take one back
StolenBaseInputAddOnly(s, key) ==
    IF key \in {"2", "3", "4", "h"}
    THEN [s EXCEPT !.sb_targets = @ \cup {IF key \in {"4", "h"} THEN "H" ELSE key}]
    ELSE s

\* the stolen base builder's keys
StolenBaseInput(s, key) ==
    IF key \in {"2", "3", "4", "h"}
    THEN LET target == IF key \in {"4", "h"} THEN "H" ELSE key
         IN  [s EXCEPT !.sb_targets =
                IF target \in @ THEN @ \ {target} ELSE @ \cup {target}]
    ELSE s

\* the BK / DI / PB / WP builder that puts the newest token first
SimpleAdvanceInputNewestFirst(s, key) ==
    LET from_b == s.advance_from_base
        token(t) == [s EXCEPT !.runner_tokens = <<t>> \o @,
                              !.advance_from_base = None]
    IN  IF from_b = None
        THEN IF key \in {"1", "2", "3"} THEN [s EXCEPT !.advance_from_base = key]
             ELSE s
        ELSE IF from_b = "1" /\ key = "2" THEN token(<<"1", "-", "2">>)
        ELSE IF from_b = "2" /\ key = "3" THEN token(<<"2", "-", "3">>)
        ELSE IF from_b = "3" /\ key \in {"4", "h"} THEN token(<<"3", "-", "H">>)
        ELSE s

\* the BK / DI / PB / WP builder's keys
SimpleAdvanceInput(s, key) ==
    LET is_strikeout_recorded == StartsWith(CurrentPlay(s).play_description, <<"K">>)
        from_b == s.advance_from_base
        token(t) == [s EXCEPT !.runner_tokens = Append(@, t),
                              !.advance_from_base = None]
    IN  IF from_b = None
        THEN IF key \in {"1", "2", "3"} THEN [s EXCEPT !.advance_from_base = key]
             ELSE IF is_strikeout_recorded /\ key \in {"b", "B"}
             THEN [s EXCEPT !.advance_from_base = "B"]
             ELSE s
        ELSE IF from_b = "1" /\ key = "2" THEN token(<<"1", "-", "2">>)
        ELSE IF from_b = "2" /\ key = "3" THEN token(<<"2", "-", "3">>)
        ELSE IF from_b = "3" /\ key \in {"4", "h"} THEN token(<<"3", "-", "H">>)
        ELSE IF from_b = "B" /\ key \in {"1", "2", "3", "4", "h"}
        THEN token(<<"B", "-", IF key \in {"4", "h"} THEN "H" ELSE key>>)
        ELSE s

\* the out-advancing builder's keys
OutAdvancingInput(s, key) ==
    IF s.oa_stage = "choose_runner" /\ key \in {"1", "2", "3"}
    THEN [s EXCEPT !.oa_from_base = key, !.oa_stage = "choose_action"]
    ELSE IF s.oa_stage = "choose_action" /\ key \in {"-", "x"}
    THEN [s EXCEPT !.oa_out = (key = "x"), !.oa_stage = "choose_dest"]
    ELSE IF s.oa_stage = "choose_dest"
    THEN LET oa_dest == IF s.oa_from_base = "1" /\ key = "2" THEN "2"
                        ELSE IF s.oa_from_base = "2" /\ key = "3" THEN "3"
                        ELSE IF s.oa_from_base = "3" /\ key \in {"4", "h"} THEN "H"
                        ELSE s.oa_dest
         IN  IF oa_dest = None THEN s
             ELSE IF s.oa_out
             THEN [s EXCEPT !.oa_dest = oa_dest, !.oa_stage = "choose_fielders",
                            !.oa_fielders = <<>>]
             ELSE [s EXCEPT !.runner_tokens = Append(@, <<s.oa_from_base, "-", oa_dest>>),
                            !.oa_stage = "choose_runner", !.oa_from_base = None,
                            !.oa_out = FALSE, !.oa_dest = None]
    ELSE IF s.oa_stage = "choose_fielders"
    THEN IF key \in DOMAIN FIELDING_POSITION_HOTKEYS
         THEN [s EXCEPT !.oa_fielders = Append(@, FIELDING_POSITION_HOTKEYS[key])]
         ELSE IF key = ENTER
         THEN IF s.oa_fielders = <<>> THEN s
              ELSE [s EXCEPT
                      !.runner_tokens = Append(@,
                          <<s.oa_from_base, "X", s.oa_dest, "(">>
                          \o Digits(s.oa_fielders) \o <<")">>),
                      !.oa_stage = "choose_runner", !.oa_from_base = None,
                      !.oa_out = FALSE, !.oa_dest = None, !.oa_fielders = <<>>]
         ELSE s
    ELSE s

\* the hit builder that keeps collecting fielders until the finalize key
HitBuilderInputNoCommit(s, key) ==
    IF key \in DOMAIN HIT_TYPE_HOTKEYS
    THEN [s EXCEPT !.detail_mode_hit_type = HIT_TYPE_HOTKEYS[key]]
    ELSE IF s.detail_mode_hit_type # None /\ key \in DOMAIN FIELDING_POSITION_HOTKEYS
    THEN [s EXCEPT !.detail_mode_fielders =
            Append(@, FIELDING_POSITION_HOTKEYS[key])]
    ELSE s

\* the hit builder's keys (every other detail_mode_result, None included)
HitBuilderInput(s, key) ==
    IF key \in DOMAIN HIT_TYPE_HOTKEYS
    THEN [s EXCEPT !.detail_mode_hit_type = HIT_TYPE_HOTKEYS[key]]
    ELSE IF s.detail_mode_hit_type # None /\ key \in DOMAIN FIELDING_POSITION_HOTKEYS
    THEN LET s1 == [s EXCEPT !.detail_mode_fielders =
                        Append(@, FIELDING_POSITION_HOTKEYS[key])]
         IN  IF s1.detail_mode_result # None
             THEN _save_detail_mode_result(s1) ELSE s1
    ELSE s

_handle_detail_mode_input(s, key) ==
    IF s.detail_mode_result \in {"OUT", "GDP", "LDP", "TP", "FO", "UO"}
    THEN OutBuilderInput(s, key)
    ELSE IF s.detail_mode_result \in {"PO", "POCS", "CS"}
    THEN PickoffBuilderInput(s, key)
    ELSE IF s.detail_mode_result = "SB" THEN StolenBaseInput(s, key)
    ELSE IF s.detail_mode_result \in {"BK", "DI", "PB", "WP"}
    THEN SimpleAdvanceInput(s, key)
    ELSE IF s.detail_mode_result = "OA" THEN OutAdvancingInput(s, key)
    ELSE HitBuilderInput(s, key)

(***************************************************************************)
(* Detail mode: the auxiliary modifier phase.                              *)
(***************************************************************************)
MODIFIER_GROUPS ==
    ("b" :> <<<<"G">>, <<"L">>, <<"F">>, <<"P">>, <<"F", "L">>, <<"I", "F">>>>) @@
    ("s" :> <<<<"S", "F">>, <<"S", "H">>>>) @@
    ("u" :> <<<<"B", "P">>, <<"B", "G">>, <<"B", "L">>>>) @@
    ("d" :> <<<<"D", "P">>, <<"T", "P">>>>) @@
    ("v" :> <<<<"G", "D", "P">>, <<"G", "T", "P">>, <<"L", "D", "P">>,
              <<"L", "T", "P">>, <<"N", "D", "P">>, <<"B", "G", "D", "P">>,
              <<"B", "P", "D", "P">>>>) @@
    ("i" :> <<<<"B", "I", "N", "T">>, <<"I", "N", "T">>, <<"R", "I", "N", "T">>,
              <<"F", "I", "N", "T">>, <<"U", "I", "N", "T">>, <<"O", "B", "S">>>>) @@
    ("a" :> <<<<"A", "P">>, <<"B", "O", "O", "T">>, <<"C">>, <<"I", "P", "H", "R">>,
              <<"P", "A", "S", "S">>, <<"B", "R">>, <<"M", "R", "E", "V">>,
              <<"U", "R", "E", "V">>>>) @@
    ("c" :> <<<<"C", "O", "U", "B">>, <<"C", "O", "U", "F">>, <<"C", "O", "U", "R">>>>) @@
    ("t" :> <<<<"T", "H">>, <<"T", "H", "%">>, <<"R", "$">>>>) @@
    ("e" :> <<<<"E", "$">>>>) @@
    ("h" :> <<>>) @@
    ("r" :> <<>>)

\* the option keys _add_modifier_options_wrapped hands out, in order
OptionLetters == <<"a", "b", "c", "d", "e", "f", "g", "h">>

\* _display_interface, as far as it changes the editor: rendering the options
\* of a coded modifier group rebuilds current_modifier_options_keymap
_display_interface(s) ==
    IF /\ s.mode = "detail"
       /\ s.modifier_selection_active
       /\ s.selected_modifier_group \notin {None, "h", "r"}
    THEN [s EXCEPT !.current_modifier_options_keymap =
            MODIFIER_GROUPS[s.selected_modifier_group]]
    ELSE s

IsUpper(c) ==
    c \in {"A", "B", "C", "D", "E", "F", "G", "H", "I", "J", "K", "L", "M", "N",
           "O", "P", "Q", "R", "S", "T", "U", "V", "W", "X", "Y", "Z"}

\* re.match(r"^[A-Z]+(\d+)/", desc): int of the first captured digit, and -1
\* for None
_extract_primary_fielder_from_play_description(desc) ==
    LET letters == {k \in 1..Len(desc) : \A j \in 1..k : IsUpper(desc[j])}
        k == IF letters = {} THEN 0 ELSE CHOOSE x \in letters : \A y \in letters : y <= x
        ends == {m \in (k + 1)..Len(desc) : \A j \in (k + 1)..m : IsDigit(desc[j])}
        m == IF ends = {} THEN 0 ELSE CHOOSE x \in ends : \A y \in ends : y <= x
    IN  IF k > 0 /\ m > 0 /\ m < Len(desc) /\ desc[m + 1] = "/"
        THEN CharToInt(desc[k + 1]) ELSE -1

\* desc.split("/")[-1]
TailAfterSlash(desc) == SubSeq(desc, FindLast(desc, "/") + 1, Len(desc))

_append_hit_location_to_current_play(s, code) ==
    LET desc == CurrentPlay(s).play_description
        fielder == _extract_primary_fielder_from_play_description(desc)
        is_first_append ==
            TailAfterSlash(desc) \in {<<"G">>, <<"L">>, <<"F">>, <<"P">>, <<"B">>}
        should_prefix ==
            /\ fielder # -1
            /\ fielder # 0
            /\ is_first_append
            /\ fielder \in 1..6
        prefixed_code == IF should_prefix THEN <<IntToChar(fielder)>> \o code ELSE code
    IN  IF desc = <<>> THEN s
        ELSE _save_current_state(SetPlay(s, [CurrentPlay(s) EXCEPT
                !.play_description = @ \o prefixed_code, !.edited = TRUE]))

\* _handle_hit_location_input: the state it leaves and whether it handled the key
_handle_hit_location_input(s, key) ==
    LET pos == s.hit_location_positions
        closed == [s EXCEPT !.hit_location_active = FALSE,
                            !.selected_modifier_group = None,
                            !.hit_location_positions = <<>>,
                            !.hit_location_suffix = <<>>,
                            !.hit_location_depth = <<>>,
                            !.hit_location_foul = FALSE]
        code == pos \o s.hit_location_suffix \o s.hit_location_depth
                \o (IF s.hit_location_foul THEN <<"F">> ELSE <<>>)
        done(s1) == [handled |-> TRUE, s |-> s1]
    IN  IF ~s.hit_location_active THEN [handled |-> FALSE, s |-> s]
        ELSE IF key = "0" THEN done(closed)
        ELSE IF key \in {"1", "2", "3", "4", "5", "6", "7", "8", "9"}
        THEN done(IF Len(pos) < 2
                  THEN [s EXCEPT !.hit_location_positions = Append(@, key)] ELSE s)
        ELSE IF key = "m"
        THEN done(IF Contains(pos, "4") \/ Contains(pos, "6")
                  THEN [s EXCEPT !.hit_location_suffix =
                            IF @ # <<"M">> THEN <<"M">> ELSE <<>>]
                  ELSE s)
        ELSE IF key = "l"
        THEN done(IF pos \in {<<"7">>, <<"9">>}
                  THEN [s EXCEPT !.hit_location_suffix =
                            IF @ # <<"L">> THEN <<"L">> ELSE <<>>]
                  ELSE s)
        ELSE IF key = "f"
        THEN done(IF pos \in {<<"2">>, <<"3">>, <<"5">>, <<"7">>, <<"9">>,
                             <<"2", "3">>, <<"2", "5">>}
                  THEN [s EXCEPT !.hit_location_foul = ~@] ELSE s)
        ELSE IF key = "s" THEN done([s EXCEPT !.hit_location_depth = <<"S">>])
        ELSE IF key = "n" THEN done([s EXCEPT !.hit_location_depth = <<>>])
        ELSE IF key = "d" THEN done([s EXCEPT !.hit_location_depth = <<"D">>])
        ELSE IF key = "x" THEN done([s EXCEPT !.hit_location_depth = <<"X", "D">>])
        ELSE IF key = ENTER
        THEN done(IF pos = <<>> THEN s
                  ELSE [_append_hit_location_to_current_play(s, code) EXCEPT
                            !.hit_location_active = FALSE,
                            !.selected_modifier_group = None,
                            !.hit_location_positions = <<>>,
                            !.hit_location_suffix = <<>>,
                            !.hit_location_depth = <<>>,
                            !.hit_location_foul = FALSE])
        ELSE [handled |-> FALSE, s |-> s]

_format_modifiers_suffix(s) == <<"/">> \o Join(s.selected_modifiers, <<"/">>)

_apply_modifiers_to_current_play(s) ==
    IF s.modifiers_live_applied \/ s.selected_modifiers = <<>> THEN s
    ELSE _save_current_state(SetPlay(s, [CurrentPlay(s) EXCEPT
            !.play_description = @ \o _format_modifiers_suffix(s),
            !.edited = TRUE]))

\* _append_modifier_to_current_play without the save
_append_modifier_unsaved(s, code) ==
    LET s1 == [s EXCEPT !.selected_modifiers = Append(@, code)]
        desc == CurrentPlay(s1).play_description
    IN  IF desc = <<>> THEN s1
        ELSE SetPlay(s1, [CurrentPlay(s1) EXCEPT
                !.play_description =
                    IF ~EndsWith(desc, <<"/">>) THEN desc \o <<"/">> \o code
                    ELSE desc \o code,
                !.edited = TRUE])

_append_modifier_to_current_play(s, code) ==
    LET s1 == [s EXCEPT !.selected_modifiers = Append(@, code)]
        desc == CurrentPlay(s1).play_description
    IN  IF desc = <<>> THEN s1
        ELSE _save_current_state(SetPlay(s1, [CurrentPlay(s1) EXCEPT
                !.play_description =
                    IF ~EndsWith(desc, <<"/">>) THEN desc \o <<"/">> \o code
                    ELSE desc \o code,
                !.edited = TRUE]))

RECURSIVE Replace(_, _, _)
\* str.replace(c, sub) for a one-character c
Replace(str, c, sub) ==
    IF str = <<>> THEN <<>>
    ELSE (IF Head(str) = c THEN sub ELSE <<Head(str)>>) \o Replace(Tail(str), c, sub)

\* the Advance Runner wizard at the end of _handle_modifier_mode_input
AdvanceRunnerInput(s, key) ==
    LET desc == CurrentPlay(s).play_description
        tokens == Join(s.advance_runner_tokens, <<";">>)
        applied ==
            IF s.advance_runner_tokens # <<>> /\ desc # <<>>
            THEN _save_current_state(SetPlay(s, [CurrentPlay(s) EXCEPT
                    !.play_description =
                        IF Contains(desc, ".") THEN desc \o <<";">> \o tokens
                        ELSE desc \o <<".">> \o tokens,
                    !.edited = TRUE]))
            ELSE s
        fb == s.advance_runner_from_base
        dest == IF fb = "1" /\ key \in {"1", "2"} THEN key
                ELSE IF fb = "2" /\ key \in {"2", "3"} THEN key
                ELSE IF fb = "3" /\ key \in {"3", "4", "h"}
                THEN (IF key \in {"4", "h"} THEN "H" ELSE "3")
                ELSE None
    IN  IF key = "0"
        THEN [s EXCEPT !.selected_modifier_group = None,
                       !.advance_runner_active = FALSE,
                       !.advance_runner_from_base = None]
        ELSE IF key = ENTER
        THEN [applied EXCEPT !.advance_runner_active = FALSE,
                             !.advance_runner_from_base = None,
                             !.advance_runner_tokens = <<>>,
                             !.selected_modifier_group = None]
        ELSE IF fb = None /\ key \in {"1", "2", "3"}
        THEN [s EXCEPT !.advance_runner_from_base = key]
        ELSE IF fb # None
        THEN IF dest # None
             THEN [s EXCEPT !.advance_runner_tokens = Append(@, <<fb, "-", dest>>),
                            !.advance_runner_from_base = None]
             ELSE s
        ELSE s

\* "if self.modifier_param_request:" of _handle_modifier_mode_input
ModifierParamInput(s, key) ==
    LET req == s.modifier_param_request
    IN  IF req.type = "fielder" /\ key \in DOMAIN FIELDING_POSITION_HOTKEYS
        THEN [_append_modifier_to_current_play(s,
                  Replace(req.code, "$", <<IntToChar(FIELDING_POSITION_HOTKEYS[key])>>))
              EXCEPT !.modifier_param_request = NoParamRequest]
        ELSE IF req.type = "base" /\ key \in {"1", "2", "3", "4"}
        THEN [_append_modifier_to_current_play(s, Replace(req.code, "%", <<key>>))
              EXCEPT !.modifier_param_request = NoParamRequest]
        ELSE s

\* "Choose group" of _handle_modifier_mode_input
ChooseGroup(s, key) ==
    IF key \in DOMAIN MODIFIER_GROUPS
    THEN IF key = "h"
         THEN [s EXCEPT !.selected_modifier_group = key,
                        !.hit_location_active = TRUE,
                        !.hit_location_positions = <<>>,
                        !.hit_location_suffix = <<>>,
                        !.hit_location_depth = <<>>]
         ELSE IF key = "r"
         THEN [s EXCEPT !.selected_modifier_group = key,
                        !.advance_runner_active = TRUE,
                        !.advance_runner_from_base = None]
         ELSE [s EXCEPT !.selected_modifier_group = key]
    ELSE s

\* "Choose option within group" appending every code as it stands, E$, R$ and
\* TH% included
ChooseOptionAsCoded(s, key) ==
    LET keymap == s.current_modifier_options_keymap
        hit == {i \in 1..Len(keymap) : i <= Len(OptionLetters) /\ OptionLetters[i] = key}
    IN  IF hit = {} THEN s
        ELSE _append_modifier_to_current_play(s, keymap[CHOOSE i \in hit : TRUE])

\* "Choose option within group": the key's code in the keymap, None if absent
OptionCode(s, key) ==
    LET keymap == s.current_modifier_options_keymap
        hit == {i \in 1..Len(keymap) : i <= Len(OptionLetters) /\ OptionLetters[i] = key}
    IN  IF hit = {} THEN None ELSE keymap[CHOOSE i \in hit : TRUE]

ChooseOption(s, key) ==
    LET code == OptionCode(s, key)
    IN  IF code = None THEN s
        ELSE IF code = <<"E", "$">>
        THEN [s EXCEPT !.modifier_param_request = [code |-> code, type |-> "fielder"]]
        ELSE IF code = <<"R", "$">>
        THEN [s EXCEPT !.modifier_param_request = [code |-> code, type |-> "fielder"]]
        ELSE IF code = <<"T", "H", "%">>
        THEN [s EXCEPT !.modifier_param_request = [code |-> code, type |-> "base"]]
        ELSE _append_modifier_to_current_play(s, code)

_handle_modifier_mode_input(s, key) ==
    LET hl == IF s.selected_modifier_group = "h"
              THEN _handle_hit_location_input(s, key)
              ELSE [handled |-> FALSE, s |-> s]
        s1 == hl.s
    IN  IF hl.handled THEN s1
        ELSE IF /\ key = ENTER
                /\ ~(s1.selected_modifier_group = "r" /\ s1.advance_runner_active)
        THEN _reset_detail_mode(
                [_apply_modifiers_to_current_play(s1) EXCEPT !.mode = "pitch"])
        ELSE IF key = "0"
        THEN [s1 EXCEPT !.selected_modifier_group = None,
                        !.modifier_param_request = NoParamRequest,
                        !.current_modifier_options_keymap = <<>>]
        ELSE IF s1.modifier_param_request # NoParamRequest THEN ModifierParamInput(s1, key)
        ELSE IF s1.selected_modifier_group = None THEN ChooseGroup(s1, key)
        ELSE LET s2 == ChooseOption(s1, key)
             IN  IF s2.selected_modifier_group = "r" /\ s2.advance_runner_active
                 THEN AdvanceRunnerInput(s2, key)
                 ELSE s2

(***************************************************************************)
(* The main loop.                                                          *)
(***************************************************************************)
\* the results that enter detail mode from play mode
DetailResults ==
    {"OUT", "S", "D", "T", "HR", "E", "PO", "POCS", "CS", "OA", "BK", "DI", "PB",
     "WP", "SB", "SF", "SH"}

\* the ENTER key in detail mode outside the modifier phase
DetailEnter(s) ==
    IF \/ /\ s.detail_mode_result \in {"OUT", "GDP", "LDP", "TP", "FO", "UO"}
          /\ s.detail_mode_out_type # None
          /\ (s.detail_mode_fielders # <<>> \/ s.detail_mode_out_type = "K")
       \/ /\ s.detail_mode_result \in {"S", "D", "T", "HR", "E"}
          /\ s.detail_mode_hit_type # None
       \/ s.detail_mode_result \in {"PO", "POCS", "CS"}
       \/ s.detail_mode_result \in {"BK", "DI", "PB", "WP", "SB", "OA"}
    THEN _save_detail_mode_result(s)
    ELSE s

\* what the mode-cycle key does
\* the cycle that never opens the modifier phase
CycleModeWithoutModifiers(s) ==
    IF s.mode = "pitch" THEN [s EXCEPT !.mode = "play"]
    ELSE IF s.mode = "play" THEN [s EXCEPT !.mode = "detail"]
    ELSE _reset_detail_mode([s EXCEPT !.mode = "pitch"])

CycleMode(s) ==
    IF s.mode = "pitch" THEN [s EXCEPT !.mode = "play"]
    ELSE IF s.mode = "play"
    THEN IF s.plays # <<>> /\ CurrentPlay(s).play_description # <<>>
         THEN _start_modifier_detail_mode([s EXCEPT !.mode = "detail"])
         ELSE [s EXCEPT !.mode = "detail"]
    ELSE _reset_detail_mode([s EXCEPT !.mode = "pitch"])

\* one iteration of the loop of run() for a key other than "q" and "j":
\* the display, then the if / elif chain on the key
run(s0, key) ==
    LET s == _display_interface(s0)
    IN  IF key = "left" THEN _previous_play(s)
        ELSE IF key = "right" THEN _next_play(s)
        ELSE IF key = "down" THEN _next_incomplete_play(s)
        ELSE IF key = "tab" THEN CycleMode(s)
        ELSE IF key = "x" THEN _undo_last_action(s)
        ELSE IF key = "-"
        THEN IF s.mode = "pitch" THEN _clear_pitches(s)
             ELSE IF s.mode = "play" THEN _clear_play_result(s)
             ELSE s
        ELSE IF s.mode = "pitch" /\ key \in DOMAIN PITCH_HOTKEYS
        THEN IF PITCH_HOTKEYS[key] = <<"X">> THEN _mark_ball_in_play_and_switch(s)
             ELSE _add_pitch(s, PITCH_HOTKEYS[key])
        ELSE IF s.mode = "play" /\ key \in DOMAIN PLAY_HOTKEYS
        THEN IF PLAY_HOTKEYS[key] \in DetailResults
             THEN _enter_detail_mode(s, PLAY_HOTKEYS[key])
             ELSE _set_play_result(s, PLAY_HOTKEYS[key])
        ELSE IF s.mode = "detail"
        THEN IF s.modifier_selection_active THEN _handle_modifier_mode_input(s, key)
             ELSE IF key = ENTER THEN DetailEnter(s)
             ELSE _handle_detail_mode_input(s, key)
        ELSE IF key = ENTER THEN _save_current_state(s)
        ELSE s

(***************************************************************************)
(* Loading a game: parser.py.                                              *)
(***************************************************************************)
RECURSIVE ParserCountLoop(_, _)
\* the for-loop of RetrosheetParser._calculate_count (no foul tip rule)
ParserCountLoop(pitches, bs) ==
    IF pitches = <<>> THEN bs
    ELSE LET pitch == Head(pitches)
             next == IF pitch = "B" THEN <<bs[1] + 1, bs[2]>>
                     ELSE IF pitch \in {"S", "C"} THEN <<bs[1], bs[2] + 1>>
                     ELSE IF pitch = "F"
                          THEN (IF bs[2] < 2 THEN <<bs[1], bs[2] + 1>> ELSE bs)
                     ELSE bs
         IN  ParserCountLoop(Tail(pitches), next)

\* RetrosheetParser._calculate_count
ParserCount(pitches) ==
    LET bs == ParserCountLoop(pitches, <<0, 0>>)
    IN  <<IntToChar(Min(bs[1], 4)), IntToChar(Min(bs[2], 3))>>

\* RetrosheetParser._parse_play for the fields of one play line (inning 1)
_parse_play(team, batter_id, original_count, pitches, play_description) ==
    Play(1, team, batter_id,
         IF original_count = <<"?", "?">> THEN ParserCount(pitches) ELSE original_count,
         original_count, pitches, play_description)

(***************************************************************************)
(* The key loop as a state machine.                                        *)
(***************************************************************************)
\* the editor stays within the bounds of the model, with at most undo
\* snapshots in its undo log
WithinBounds(s, undo) ==
    /\ \A i \in 1..Len(s.plays) :
          /\ Len(s.plays[i].pitches) <= MaxPitches
          /\ Len(s.plays[i].play_description) <= MaxDesc
    /\ Len(s.undo_history) <= undo
    /\ Len(s.detail_mode_fielders) <= MaxList
    /\ Len(s.detail_pickoff_fielders) <= MaxList
    /\ Len(s.runner_tokens) <= MaxList
    /\ Len(s.oa_fielders) <= MaxList
    /\ Len(s.selected_modifiers) <= MaxList
    /\ Len(s.advance_runner_tokens) <= MaxList

\* one turn of the loop of run() on the given key
Press(key, undo) ==
    /\ self' = run(self, key)
    /\ WithinBounds(self', undo)

Unknown == <<"?", "?">>

\* "j", then play_number typed at the prompt
Jump(s, play_number) == _jump_to_play(_display_interface(s), play_number)

(***************************************************************************)
(* Spec: every key class of the dispatcher, on a game of two records by    *)
(* different batters, the first with two strikes already recorded.         *)
(***************************************************************************)
Games ==
    { <<_parse_play(0, "a", <<"0", "2">>, <<"S", "S">>, <<>>),
        _parse_play(0, "b", Unknown, <<>>, <<>>)>> }

Init == \E plays \in Games : self = NewEditor(plays)

\* the keys pressed in each mode
PitchKeys == {"s", "v"}

ResultKeys == {"1", "l"}

DetailKeys == {"g"}

KeyLeft == Press("left", MaxUndo)

KeyRight == Press("right", MaxUndo)

KeyDown == Press("down", MaxUndo)

KeyTab == Press("tab", MaxUndo)

KeyUndo == Press("x", MaxUndo)

KeyClear == Press("-", MaxUndo)

KeyJump ==
    \E play_number \in 0..Len(self.plays) :
        self' = Jump(self, play_number) /\ WithinBounds(self', MaxUndo)

KeyEnter == Press(ENTER, MaxUndo)

KeyPitch ==
    /\ self.mode = "pitch"
    /\ \E key \in PitchKeys : Press(key, MaxUndo)

KeyResult ==
    /\ self.mode = "play"
    /\ \E key \in ResultKeys : Press(key, MaxUndo)

KeyDetail ==
    /\ self.mode = "detail"
    /\ \E key \in DetailKeys : Press(key, MaxUndo)

Next ==
    \/ KeyLeft
    \/ KeyRight
    \/ KeyDown
    \/ KeyTab
    \/ KeyUndo
    \/ KeyClear
    \/ KeyJump
    \/ KeyEnter
    \/ KeyPitch
    \/ KeyResult
    \/ KeyDetail

Spec == Init /\ [][Next]_vars

(***************************************************************************)
(* SpecPitch: pitch entry on games of two records, where the second record *)
(* may continue the at-bat of the first: the inherited starting count, the *)
(* automatic walk and strikeout, navigation, undo and clear.               *)
(***************************************************************************)
\* the count fields of the first record's line in the event file
CountFields ==
    { <<"0", "2">>, <<"3", "1">>, <<"1">>, <<"0", "?">>, <<"?", "1">>,
      <<"1", "2", "3">>, <<>> }

PitchGames ==
    { <<_parse_play(0, "a", <<"3", "0">>, <<"B", "B", "B">>, <<>>),
        _parse_play(0, "b", Unknown, <<>>, <<>>)>> }
    \cup
    { <<_parse_play(0, "a", count, <<"S">>, <<"W", "P", ".", "1", "-", "2">>),
        _parse_play(0, "a", Unknown, <<>>, <<>>)>> : count \in CountFields }

PitchInit == \E plays \in PitchGames : self = NewEditor(plays)

BallStrikeKeys == {"b", "s", "f"}

PitchLeft == Press("left", MaxUndo)

PitchRight == Press("right", MaxUndo)

PitchTab == Press("tab", MaxUndo)

PitchUndo == Press("x", MaxUndo)

PitchClear == Press("-", MaxUndo)

PitchInPlay == self.mode = "pitch" /\ Press(".", MaxUndo)

PitchBallStrike ==
    /\ self.mode = "pitch"
    /\ \E key \in BallStrikeKeys : Press(key, MaxUndo)

PitchNext ==
    \/ PitchLeft
    \/ PitchRight
    \/ PitchTab
    \/ PitchUndo
    \/ PitchClear
    \/ PitchInPlay
    \/ PitchBallStrike

SpecPitch == PitchInit /\ [][PitchNext]_vars

(***************************************************************************)
(* SpecAtBat: one at-bat entered pitch by pitch on a fresh record.         *)
(***************************************************************************)
AtBatGames == { <<_parse_play(0, "a", Unknown, <<>>, <<>>)>> }

AtBatInit == \E plays \in AtBatGames : self = NewEditor(plays)

AtBatKeys == {"b", "s", "f", "t"}

AtBatTab == Press("tab", MaxUndoAtBat)

AtBatUndo == Press("x", MaxUndoAtBat)

AtBatClear == Press("-", MaxUndoAtBat)

AtBatInPlay == self.mode = "pitch" /\ Press(".", MaxUndoAtBat)

AtBatPitch ==
    /\ self.mode = "pitch"
    /\ \E key \in AtBatKeys : Press(key, MaxUndoAtBat)

AtBatNext ==
    \/ AtBatTab
    \/ AtBatUndo
    \/ AtBatClear
    \/ AtBatInPlay
    \/ AtBatPitch

SpecAtBat == AtBatInit /\ [][AtBatNext]_vars

(***************************************************************************)
(* SpecWildPitch: a wild pitch or passed ball entered from pitch mode, its *)
(* runner advance, and a hit recorded afterwards on the same record.  The  *)
(* scorer opens the hit builder only on a record that carries the suffix.  *)
(***************************************************************************)
WildPitchGames ==
    { <<_parse_play(0, "a", Unknown, <<>>, <<>>)>>,
      <<_parse_play(0, "a", <<"0", "0">>, <<"X">>, <<"S", "7">>)>> }

WildPitchInit == \E plays \in WildPitchGames : self = NewEditor(plays)

WildPitchKeys == {"v", "a"}

HitKeys == {"1"}

BuilderKeys == {"g", "3", "4"}

WildPitchTab == Press("tab", MaxUndoFlow)

WildPitchClear == Press("-", MaxUndoFlow)

WildPitchEnter == Press(ENTER, MaxUndoFlow)

WildPitchPitch ==
    /\ self.mode = "pitch"
    /\ \E key \in WildPitchKeys : Press(key, MaxUndoFlow)

WildPitchResult ==
    /\ self.mode = "play"
    /\ Contains(CurrentPlay(self).play_description, "+")
    /\ \E key \in HitKeys : Press(key, MaxUndoFlow)

WildPitchDetail ==
    /\ self.mode = "detail"
    /\ \E key \in BuilderKeys : Press(key, MaxUndoFlow)

WildPitchNext ==
    \/ WildPitchTab
    \/ WildPitchClear
    \/ WildPitchEnter
    \/ WildPitchPitch
    \/ WildPitchResult
    \/ WildPitchDetail

SpecWildPitch == WildPitchInit /\ [][WildPitchNext]_vars

(***************************************************************************)
(* The result-code grammar, as a recogniser of result strings.             *)
(***************************************************************************)
DigitSet == {DigitChars[n] : n \in 1..Len(DigitChars)}

AllIn(str, set) == \A i \in 1..Len(str) : str[i] \in set

UpperChars ==
    {"A", "B", "C", "D", "E", "F", "G", "H", "I", "J", "K", "L", "M", "N",
     "O", "P", "Q", "R", "S", "T", "U", "V", "W", "X", "Y", "Z"}

HitLetters ==
    {<<"S">>, <<"D">>, <<"T">>, <<"H", "R">>, <<"E">>, <<"F", "C">>,
     <<"S", "F">>, <<"S", "H">>}

ShapeLetters == {"G", "L", "F", "P", "B"}

TokenChars == DigitSet \cup {"B", "H", "X", "E", "-", ";", "(", ")"}

\* {letter}{fielder?}/{shape}
PrimaryHit(p) ==
    \E l \in HitLetters :
        /\ StartsWith(p, l)
        /\ LET r == SubSeq(p, Len(l) + 1, Len(p))
           IN  \/ Len(r) = 2 /\ r[1] = "/" /\ r[2] \in ShapeLetters
               \/ Len(r) = 3 /\ IsDigit(r[1]) /\ r[2] = "/" /\ r[3] \in ShapeLetters

\* fielder digits, "/", the out subtype, and "/" category when it differs
PrimaryOut(p) ==
    \E k \in 1..Len(p) :
        /\ AllIn(SubSeq(p, 1, k), DigitSet)
        /\ Len(p) >= k + 2
        /\ p[k + 1] = "/"
        /\ p[k + 2] \in UpperChars
        /\ p[Len(p)] \in UpperChars
        /\ AllIn(SubSeq(p, k + 2, Len(p)), UpperChars \cup {"/"})

\* K and the fielders of a dropped third strike
PrimaryStrikeout(p) ==
    /\ p # <<>>
    /\ p[1] = "K"
    /\ AllIn(Tail(p), DigitSet)

\* the codes written without a builder: walk, intentional walk, hit by pitch,
\* catcher's interference, no decision
PrimarySimple(p) ==
    p \in {<<"W">>, <<"I", "W">>, <<"H", "P">>, <<"C", "I">>, <<"N", "D">>}

\* PO{base}(...), POCS{base}(...), CS{base}(...)
PrimaryPickoff(p) ==
    \E c \in {<<"P", "O">>, <<"P", "O", "C", "S">>, <<"C", "S">>} :
        /\ StartsWith(p, c)
        /\ Len(p) > Len(c) + 2
        /\ p[Len(c) + 1] \in {"1", "2", "3", "H"}
        /\ p[Len(c) + 2] = "("
        /\ p[Len(p)] = ")"
        /\ AllIn(SubSeq(p, Len(c) + 3, Len(p) - 1), DigitSet \cup {"E"})

\* {CODE}. and runner tokens joined by ";", or SB tokens joined by ";"
PrimaryAdvance(p) ==
    \/ \E c \in {<<"B", "K">>, <<"D", "I">>, <<"P", "B">>, <<"W", "P">>, <<"O", "A">>} :
          /\ StartsWith(p, c \o <<".">>)
          /\ Len(p) > Len(c) + 1
          /\ AllIn(SubSeq(p, Len(c) + 2, Len(p)), TokenChars)
    \/ /\ StartsWith(p, <<"S", "B">>)
       /\ AllIn(p, {"S", "B", "2", "3", "H", ";"})

Primary(p) ==
    \/ PrimaryHit(p)
    \/ PrimaryOut(p)
    \/ PrimaryStrikeout(p)
    \/ PrimarySimple(p)
    \/ PrimaryPickoff(p)
    \/ PrimaryAdvance(p)

\* "+PB." or "+WP." and its runner tokens
PlusSuffixForm(r) ==
    /\ Len(r) > 4
    /\ SubSeq(r, 1, 4) \in {<<"+", "P", "B", ".">>, <<"+", "W", "P", ".">>}
    /\ AllIn(SubSeq(r, 5, Len(r)), TokenChars)

\* hit-location and modifier annotations: a location starts with a digit, a
\* modifier with "/"
AnnotationForm(r) ==
    \/ r = <<>>
    \/ /\ r[1] \in DigitSet \cup {"/"}
       /\ AllIn(r, DigitSet \cup UpperChars \cup {"/", "(", ")"})

\* the annotations after a primary production, then the optional suffix
TailForm(r) ==
    \/ AnnotationForm(r)
    \/ \E k \in 1..Len(r) :
          /\ r[k] = "+"
          /\ AnnotationForm(SubSeq(r, 1, k - 1))
          /\ PlusSuffixForm(SubSeq(r, k, Len(r)))

\* empty, a suffix alone (the wild pitch recorded before the primary result),
\* or one primary production followed by annotations and the suffix
ValidResult(d) ==
    \/ d = <<>>
    \/ PlusSuffixForm(d)
    \/ \E k \in 1..Len(d) :
          /\ Primary(SubSeq(d, 1, k))
          /\ TailForm(SubSeq(d, k + 1, Len(d)))

(***************************************************************************)
(* Claims.                                                                 *)
(***************************************************************************)

\* C1: after any sequence of key events, starting from records whose results
\* are empty or valid, every record's result is empty or a valid production
\* of the result-code grammar.  The automatic strikeout prefixes "K" to a
\* result that is already there, so the statement fails.
C1_EveryResultValid ==
    \A i \in 1..Len(self.plays) : ValidResult(self.plays[i].play_description)

\* the case of C1: a third strike thrown on a record that holds a walk
C1_StrikeoutOnWalk ==
    \E i \in 1..Len(self.plays) : self.plays[i].play_description = <<"K", "W">>

\* the runner tokens of a suffix: {from}-{to} joined by ";"
SuffixTokens(t) ==
    /\ Len(t) % 4 = 3
    /\ \A j \in 1..Len(t) :
          CASE j % 4 = 1 -> t[j] \in {"1", "2", "3", "B"}
            [] j % 4 = 2 -> t[j] = "-"
            [] j % 4 = 3 -> t[j] \in {"1", "2", "3", "H"}
            [] OTHER -> t[j] = ";"

\* one suffix as the pitch-triggered flow writes it
OneSuffix(r) ==
    /\ Len(r) >= 7
    /\ SubSeq(r, 1, 4) \in {<<"+", "P", "B", ".">>, <<"+", "W", "P", ".">>}
    /\ SuffixTokens(SubSeq(r, 5, Len(r)))

\* the result from its first "+" on
TrailingSegment(d) == SubSeq(d, Find(d, "+"), Len(d))

\* the trailing segment is made of whole suffixes and nothing else
SuffixChain(c) ==
    \A p \in 1..Len(c) :
        c[p] = "+" =>
            \E q \in p..Len(c) :
                /\ \A j \in (p + 1)..q : c[j] # "+"
                /\ q = Len(c) \/ c[q + 1] = "+"
                /\ OneSuffix(SubSeq(c, p, q))

CarriesSuffix(d) == Contains(d, "+") /\ SuffixChain(TrailingSegment(d))

\* C2: once a record's result carries a +PB/+WP suffix written by the
\* pitch-triggered flow, every later step that does not empty the result
\* leaves a result whose trailing segment is still that suffix (a primary
\* result committed afterwards goes before it).  The hit-location builder
\* opened by the commit appends its code after the suffix, so this fails.
C2_SuffixStaysTrailing ==
    [][\A i \in 1..Len(self.plays) :
          LET d == self.plays[i].play_description
              e == self'.plays[i].play_description
          IN  (CarriesSuffix(d) /\ e # <<>>) =>
                 /\ CarriesSuffix(e)
                 /\ StartsWith(TrailingSegment(e), TrailingSegment(d))]_vars

\* the case of C2: a hit committed in front of the suffix of a wild pitch
C2_HitBeforeSuffix ==
    /\ CurrentPlay(self).play_description
          = <<"S", "/", "G", "+", "W", "P", ".", "3", "-", "H">>
    /\ self.hit_location_active

\* the uncapped balls and strikes of record i (0-based) of a list of records
RawOf(plays, i) ==
    _calculate_raw_balls_strikes(plays[i + 1].pitches,
                                 _starting_count_for_play_index(plays, i))

\* C3: whenever a pitch added in pitch mode leaves raw strikes >= 3, counted
\* from the record's starting count (inherited count included) plus its
\* pitches, the result becomes a strikeout production and the mode stays.
\* The strikeout test counts the record's own pitches only, so this fails.
C3_StrikeoutAtThreeRawStrikes ==
    [][PitchBallStrike =>
          LET i == self.current_play_index
              raw == RawOf(self'.plays, i)
          IN  (raw[1] < 4 /\ raw[2] >= 3) =>
                 /\ StartsWith(self'.plays[i + 1].play_description, <<"K">>)
                 /\ self'.mode = self.mode]_vars

\* the case of C3: a record that inherits two strikes and holds one strike
C3_InheritedThirdStrike ==
    /\ self.current_play_index = 1
    /\ _starting_count_for_play_index(self.plays, 1) = <<"0", "2">>
    /\ CurrentPlay(self).pitches = <<"S">>

\* C4: a pitch that makes raw balls reach 4 sets the result to W and moves
\* to the next record, and the walk is triggered once: a later pitch key on
\* a record whose raw balls are already 4 does not move the session again.
\* Every pitch added to a walked record walks it again, so this fails.
C4_WalkTriggeredOnce ==
    [][PitchBallStrike =>
          LET i == self.current_play_index
              before == RawOf(self.plays, i)
              after == RawOf(self'.plays, i)
          IN  /\ (before[1] < 4 /\ after[1] >= 4) =>
                    /\ self'.plays[i + 1].play_description = <<"W">>
                    /\ self'.current_play_index =
                          IF i + 1 < Len(self.plays) THEN i + 1 ELSE i
              /\ before[1] >= 4 => self'.current_play_index = i]_vars

\* the case of C4: back on a record walked by its fourth ball
C4_BackOnWalkedRecord ==
    /\ self.current_play_index = 0
    /\ self.mode = "pitch"
    /\ CurrentPlay(self).pitches = <<"B", "B", "B", "B">>
    /\ CurrentPlay(self).play_description = <<"W">>

\* the display counts: balls 0..3 and strikes 0..2 as two digits
BoundedCounts ==
    {<<b, k>> : b \in {"0", "1", "2", "3"}, k \in {"0", "1", "2"}}

\* the top of the undo history names the record an undo writes to
UndoTarget(s) == s.undo_history[Len(s.undo_history)][2]

PitchRule(bs, code) ==
    CASE code = "B" -> <<bs[1] + 1, bs[2]>>
      [] code \in {"S", "C"} -> <<bs[1], bs[2] + 1>>
      [] code = "F" -> <<bs[1], IF bs[2] < 2 THEN bs[2] + 1 ELSE bs[2]>>
      [] code = "T" -> <<bs[1], bs[2] + 1>>
      [] OTHER -> bs

\* C6: the count derivation applies, left to right from the starting count,
\* B: a ball; S, C: a strike; F: a strike only while strikes < 2; T: a strike;
\* any other code: nothing.  So a record without S, C or T never has raw
\* strikes >= 3 from 0-0, SSFFF has raw strikes 2, and the keys b, b, f, b
\* on an empty record give pitches BBFB, count 31, no result, the same mode.
C6_PitchCodeRule ==
    /\ [](/\ \A code \in PitchChars, b \in 0..4, k \in 0..3 :
               /\ _calculate_raw_balls_strikes(<<code>>, <<IntToChar(b), IntToChar(k)>>)
                     = PitchRule(<<b, k>>, code)
               /\ _calculate_raw_balls_strikes(<<"B", code>>, <<IntToChar(b), IntToChar(k)>>)
                     = PitchRule(<<b + 1, k>>, code)
          /\ _calculate_raw_balls_strikes(<<"S", "S", "F", "F", "F">>, <<"0", "0">>)[2] = 2
          /\ \A i \in 1..Len(self.plays) :
                (/\ _starting_count_for_play_index(self.plays, i - 1) = <<"0", "0">>
                 /\ AllIn(self.plays[i].pitches, PitchChars \ {"S", "C", "T"}))
                => RawOf(self.plays, i - 1)[2] < 3)
    /\ [][AtBatPitch =>
             LET i == self.current_play_index
                 p == self.plays[i + 1].pitches
                 q == self'.plays[i + 1].pitches
             IN  /\ Len(q) = Len(p) + 1
                 /\ RawOf(self'.plays, i) = PitchRule(RawOf(self.plays, i), q[Len(q)])
                 /\ (/\ p = <<"B", "B", "F">>
                     /\ q = <<"B", "B", "F", "B">>
                     /\ self.plays[i + 1].play_description = <<>>)
                    => /\ self'.plays[i + 1].count = <<"3", "1">>
                       /\ self'.plays[i + 1].play_description = <<>>
                       /\ self'.mode = self.mode]_vars

\* the case of C6: b, b, f, b typed on the empty record
C6_BallBallFoulBall ==
    /\ CurrentPlay(self).pitches = <<"B", "B", "F", "B">>
    /\ Len(self.undo_history) = 4
    /\ \A n \in 1..4 :
          self.undo_history[n][3] = SubSeq(<<"B", "B", "F">>, 1, n - 1)

\* C7: the displayed count shows the third strike and the fourth ball: a
\* record that reaches three strikes from 0-0 (S,S,S or S,S,T) is a
\* strikeout with display count 03, and four balls from 0-0 display 40.
\* The display count caps strikes at 2 and balls at 3, so this fails.
C7_ThirdStrikeAndFourthBallShown ==
    \A i \in 1..Len(self.plays) :
        LET start == _starting_count_for_play_index(self.plays, i - 1)
            pitches == self.plays[i].pitches
        IN  start = <<"0", "0">> =>
               /\ pitches \in {<<"S", "S", "S">>, <<"S", "S", "T">>} =>
                     /\ _has_strikeout(pitches)
                     /\ _calculate_count(pitches, start) = <<"0", "3">>
               /\ pitches = <<"B", "B", "B", "B">> =>
                     _calculate_count(pitches, start) = <<"4", "0">>

\* the case of C7: the third strike of a record recorded as a strikeout
C7_ThirdStrikeRecorded ==
    /\ CurrentPlay(self).pitches \in {<<"S", "S", "S">>, <<"S", "S", "T">>}
    /\ CurrentPlay(self).play_description = <<"K">>

\* a count string that is not exactly two decimal digits
Malformed(count) == Len(count) # 2 \/ ~AllIn(count, DigitSet)

\* C8: the starting count of record i is the count of record i-1 when both
\* have the same inning, team and batter, and "00" otherwise; a malformed
\* inherited count (wrong length or a non-digit) counts as (0,0).  A count
\* with more than two characters is read by its first two, so this fails.
C8_MalformedStartIsZero ==
    \A i \in 1..Len(self.plays) :
        LET start == _starting_count_for_play_index(self.plays, i - 1)
            inherits ==
                /\ i > 1
                /\ self.plays[i - 1].inning = self.plays[i].inning
                /\ self.plays[i - 1].team = self.plays[i].team
                /\ self.plays[i - 1].batter_id = self.plays[i].batter_id
                /\ self.plays[i - 1].count # <<>>
        IN  /\ start = IF inherits THEN self.plays[i - 1].count ELSE <<"0", "0">>
            /\ Malformed(start) =>
                  /\ _calculate_raw_balls_strikes(<<>>, start) = <<0, 0>>
                  /\ _calculate_count(self.plays[i].pitches, start)
                        = _calculate_count(self.plays[i].pitches, <<"0", "0">>)

\* the case of C8: a pitch added to a record that inherits a malformed count
C8_PitchOnMalformedStart ==
    /\ self.current_play_index = 1
    /\ Malformed(_starting_count_for_play_index(self.plays, 1))
    /\ CurrentPlay(self).pitches # <<>>
    /\ CurrentPlay(self).edited

\* the result the pitch-triggered builder writes when finalized
WithSuffix(existing, code, tokens) ==
    existing \o <<"+">> \o Chars(code) \o <<".">> \o Join(tokens, <<";">>)

\* C9: a wild-pitch (v) or passed-ball (a) key in pitch mode appends only the
\* separator "." to the pitches, leaves the result unchanged and enters
\* detail mode with the runner-advance builder set to WP or PB; finalizing
\* that builder with at least one token makes the result the existing result
\* followed by "+WP." or "+PB." and the tokens joined by ";".
C9_WildPitchKeyAndFinalize ==
    [][/\ \A key \in WildPitchKeys :
             (self.mode = "pitch" /\ Press(key, MaxUndoFlow)) =>
                /\ CurrentPlay(self').pitches = CurrentPlay(self).pitches \o <<".">>
                /\ CurrentPlay(self').play_description
                      = CurrentPlay(self).play_description
                /\ self'.current_play_index = self.current_play_index
                /\ self'.mode = "detail"
                /\ self'.detail_mode_result = IF key = "v" THEN "WP" ELSE "PB"
                /\ self'.runner_tokens = <<>>
       /\ (/\ WildPitchEnter
           /\ self.mode = "detail"
           /\ self.detail_mode_result \in {"WP", "PB"}
           /\ self.detail_mode_from_pitch_pb_wp
           /\ self.runner_tokens # <<>>) =>
              CurrentPlay(self').play_description
                 = WithSuffix(CurrentPlay(self).play_description,
                              self.detail_mode_result, self.runner_tokens)]_vars

\* the case of C9: the builder finalized on a record that had a result
C9_SuffixAfterExistingResult ==
    CurrentPlay(self).play_description
       \in {<<"S", "7", "+", "W", "P", ".", "3", "-", "H">>,
            <<"S", "7", "+", "P", "B", ".", "3", "-", "H">>}

\* C10: the mode-cycle key moves pitch to play, play to detail and detail
\* to pitch from every reachable state; on play to detail the modifier phase
\* is active on arrival exactly when the current record has a result, and
\* otherwise no category is chosen; the key changes no record.
C10_ModeCycle ==
    [][KeyTab =>
          /\ self'.mode = CASE self.mode = "pitch" -> "play"
                            [] self.mode = "play" -> "detail"
                            [] OTHER -> "pitch"
          /\ self.mode = "play" =>
                /\ self'.modifier_selection_active
                      <=> (CurrentPlay(self).play_description # <<>>)
                /\ CurrentPlay(self).play_description = <<>>
                      => self'.detail_mode_result = None
          /\ self'.plays = self.plays
          /\ self'.current_play_index = self.current_play_index]_vars

\* the case of C10: detail mode entered by the key on a record with a result
C10_ArrivedWithModifiers ==
    /\ self.mode = "detail"
    /\ self.modifier_selection_active
    /\ self.detail_mode_result = None
    /\ CurrentPlay(self).play_description = <<"W">>

\* the fields of the builders: category, shapes, fielders, pickoff, runner
\* advance, out-advancing, stolen bases, modifier phase, hit location,
\* advance runner, and the pitch-triggered marker
BuilderFields ==
    {"detail_mode_result", "detail_mode_hit_type", "detail_mode_out_type",
     "detail_mode_fielders", "detail_pickoff_base", "detail_pickoff_fielders",
     "detail_pickoff_error_fielder", "detail_pickoff_awaiting_error_fielder",
     "runner_tokens", "advance_from_base", "oa_stage", "oa_from_base", "oa_out",
     "oa_dest", "oa_fielders", "sb_targets", "modifier_selection_active",
     "selected_modifier_group", "selected_modifiers", "modifier_param_request",
     "hit_location_active", "hit_location_positions", "hit_location_suffix",
     "hit_location_depth", "hit_location_foul", "advance_runner_active",
     "advance_runner_from_base", "advance_runner_tokens",
     "detail_mode_from_pitch_pb_wp", "detail_mode_pb_wp_code"}

BuilderState(s) == [f \in BuilderFields |-> s[f]]

\* C11: after the mode-cycle key is pressed in detail mode, every builder
\* field equals its initial empty value, the hit-location fields and the
\* pitch-triggered marker included.  The reset leaves those untouched, so
\* this fails.
C11_TabDiscardsBuilderState ==
    [][(WildPitchTab /\ self.mode = "detail") =>
          BuilderState(self') = BuilderState(NewEditor(self.plays))]_vars

\* the case of C11: a pitch-triggered builder holding a runner token
C11_BuilderInProgress ==
    /\ self.mode = "detail"
    /\ self.detail_mode_from_pitch_pb_wp
    /\ self.runner_tokens # <<>>

(***************************************************************************)
(* SpecResult: every category key of play mode, as the dispatcher of run() *)
(* handles it, on the game of Spec.                                        *)
(***************************************************************************)
\* one key typed in play mode; "j" is taken by the jump prompt before the
\* play-mode keys are looked at
CategoryKey(key) ==
    IF key = "j"
    THEN \E play_number \in 0..Len(self.plays) :
            self' = Jump(self, play_number) /\ WithinBounds(self', MaxUndo)
    ELSE Press(key, MaxUndo)

ResultTab == Press("tab", MaxUndo)

ResultClear == Press("-", MaxUndo)

ResultCategory ==
    /\ self.mode = "play"
    /\ \E key \in DOMAIN PLAY_HOTKEYS : CategoryKey(key)

ResultNext ==
    \/ ResultTab
    \/ ResultClear
    \/ ResultCategory

SpecResult == Init /\ [][ResultNext]_vars

\* the categories that need no elaboration
ImmediateResults == {"W", "HP", "IW", "CI", "ND"}

\* C12: in play mode, through the dispatcher, the key of a category that
\* needs elaboration enters detail mode with the category stored and leaves
\* the records unchanged; the key of a category without elaboration (walk,
\* hit by pitch, intentional walk, catcher's interference, no play) sets the
\* result to that code, marks the record edited and stays in play mode.
\* The key of catcher's interference is the jump key, so this fails.
C12_CategoryKeys ==
    [][\A key \in DOMAIN PLAY_HOTKEYS :
          (self.mode = "play" /\ CategoryKey(key)) =>
             IF PLAY_HOTKEYS[key] \in ImmediateResults
             THEN /\ CurrentPlay(self').play_description = Chars(PLAY_HOTKEYS[key])
                  /\ CurrentPlay(self').edited
                  /\ self'.current_play_index = self.current_play_index
                  /\ self'.mode = "play"
             ELSE /\ self'.mode = "detail"
                  /\ self'.detail_mode_result = PLAY_HOTKEYS[key]
                  /\ self'.plays = self.plays]_vars

\* the case of C12: play mode on a record without a result
C12_PlayModeNoResult ==
    /\ self.mode = "play"
    /\ CurrentPlay(self).play_description = <<>>

(***************************************************************************)
(* SpecHit: the hit builder and the Hit Location builder behind it, on one *)
(* empty record.                                                           *)
(***************************************************************************)
HitGames == {<<_parse_play(0, "a", <<"0", "0">>, <<>>, <<>>)>>}

HitInit == \E plays \in HitGames : self = NewEditor(plays)

\* the play mode keys of the hit categories: single, home run, error
HitCategoryKeys == {"1", "4", "e"}

\* hit shapes, fielders, positions and the toggles of the Hit Location builder
HitDetailKeys == {"g", "l", "f", "m", "d", "6", "7", "8"}

HitTab == Press("tab", MaxUndo)

HitEnter == Press(ENTER, MaxUndo)

\* a hit category is chosen for a record that has no result yet
HitCategory ==
    /\ self.mode = "play"
    /\ CurrentPlay(self).play_description = <<>>
    /\ \E key \in HitCategoryKeys : Press(key, MaxUndo)

HitDetail ==
    /\ self.mode = "detail"
    /\ \E key \in HitDetailKeys : Press(key, MaxUndo)

HitNext ==
    \/ HitTab
    \/ HitEnter
    \/ HitCategory
    \/ HitDetail

SpecHit == HitInit /\ [][HitNext]_vars

HitLocationCode(code) ==
    \E positions \in {<<p>> : p \in DigitSet \ {"0"}}
                     \cup {<<p, q>> : p, q \in DigitSet \ {"0"}} :
    \E suffix \in {<<>>, <<"M">>, <<"L">>} :
    \E depth \in {<<>>, <<"S">>, <<"D">>, <<"X", "D">>} :
    \E foul \in {<<>>, <<"F">>} :
        /\ code = positions \o suffix \o depth \o foul
        /\ suffix = <<"M">> => (Contains(positions, "4") \/ Contains(positions, "6"))
        /\ suffix = <<"L">> => positions \in {<<"7">>, <<"9">>}
        /\ foul = <<"F">> =>
              positions \in {<<"2">>, <<"3">>, <<"5">>, <<"7">>, <<"9">>,
                             <<"2", "3">>, <<"2", "5">>}

\* what a step appended to the current record's result
Appended(s, t) ==
    SubSeq(CurrentPlay(t).play_description,
           Len(CurrentPlay(s).play_description) + 1,
           Len(CurrentPlay(t).play_description))

\* C20: whatever keys were entered in the Hit Location builder, the code its
\* finalize key appends to the result (after the primary infielder's digit,
\* when that is prefixed) is a Hit Location code
C20_HitLocationCodeValid ==
    [][(/\ self.mode = "detail"
        /\ self.hit_location_active
        /\ self.hit_location_positions # <<>>
        /\ HitEnter)
       => \/ HitLocationCode(Appended(self, self'))
          \/ /\ Appended(self, self') # <<>>
             /\ Head(Appended(self, self')) \in {"1", "2", "3", "4", "5", "6"}
             /\ HitLocationCode(Tail(Appended(self, self')))]_vars

\* the Hit Location builder holds positions 78 with the suffix L chosen when
\* the positions were 7
C20_LineSuffixOnTwoPositions ==
    /\ self.hit_location_active
    /\ self.hit_location_positions = <<"7", "8">>
    /\ self.hit_location_suffix = <<"L">>

(***************************************************************************)
(* SpecBuilder: the builders of detail mode driven through the editor's    *)
(* own methods, as the test suite drives them: _enter_detail_mode with a   *)
(* category, _handle_detail_mode_input with a key, the finalize key.       *)
(***************************************************************************)
\* fielders one out may collect under SpecBuilder
MaxFielders == 3

\* one record without a result, or one on which a strikeout is recorded
BuilderGames ==
    { <<_parse_play(0, "a", <<"0", "0">>, <<>>, <<>>)>>,
      <<_parse_play(0, "a", <<"0", "0">>, <<"S", "S", "S">>, <<"K">>)>> }

BuilderInit == \E plays \in BuilderGames : self = NewEditor(plays)

\* the categories handed to _enter_detail_mode
BuilderCategories ==
    {"OUT", "GDP", "PO", "POCS", "CS", "BK", "DI", "PB", "WP", "SB", "OA"}

\* the keys handed to _handle_detail_mode_input while the builder of the
\* given category is open
InputKeys(result) ==
    IF result \in {"OUT", "GDP"} THEN {"g", "k", "w", "3", "4", "6"}
    ELSE IF result \in {"PO", "POCS", "CS"} THEN {"1", "2", "3", "4", "e"}
    ELSE IF result \in {"BK", "DI", "PB", "WP"} THEN {"1", "2", "3", "4", "h", "b"}
    ELSE IF result = "SB" THEN {"2", "3", "4", "h"}
    ELSE {"2", "3", "-", "x", ENTER}

\* the lists of editor state s stay within the bounds of SpecBuilder
BuilderWithin(s) ==
    /\ Len(s.undo_history) <= MaxUndo
    /\ Len(s.detail_mode_fielders) <= MaxFielders
    /\ Len(s.detail_pickoff_fielders) <= MaxList
    /\ Len(s.runner_tokens) <= MaxList
    /\ Len(s.oa_fielders) <= MaxList

BuilderTab ==
    /\ self' = run(self, "tab")
    /\ BuilderWithin(self')

\* editor._enter_detail_mode(result), on a record this session has not edited;
\* on the record with a strikeout, the categories whose builder reads it
BuilderEnterDetail ==
    /\ self.mode = "play"
    /\ ~CurrentPlay(self).edited
    /\ \E result \in BuilderCategories :
          /\ CurrentPlay(self).play_description # <<>>
                => result \in {"BK", "DI", "PB", "WP"}
          /\ self' = _enter_detail_mode(self, result)

\* editor._handle_detail_mode_input(key) while a builder is open
BuilderInput ==
    /\ self.mode = "detail"
    /\ ~self.modifier_selection_active
    /\ \E key \in InputKeys(self.detail_mode_result) :
          /\ self' = _handle_detail_mode_input(self, key)
          /\ BuilderWithin(self')

\* the finalize key, through run()
BuilderEnter ==
    /\ self' = run(self, ENTER)
    /\ BuilderWithin(self')

BuilderNext ==
    \/ BuilderTab
    \/ BuilderEnterDetail
    \/ BuilderInput
    \/ BuilderEnter

SpecBuilder == BuilderInit /\ [][BuilderNext]_vars

\* the categories of the out builder that are written after the out subtype
OutCategoryCodes == {"GDP", "LDP", "TP", "FO", "UO"}

\* C14: in the out builder the out subtype and fielder keys never change the
\* record; the finalize key commits the fielder digits in entry order, "/",
\* the out subtype, and "/" with the category code only when the category is
\* one of GDP, LDP, TP, FO, UO and differs from the subtype; after the commit
\* the session is in DETAIL with the Hit Location phase open
C14_OutBuilderCommit ==
    (/\ self.mode = "detail"
     /\ ~self.modifier_selection_active
     /\ self.detail_mode_result \in {"OUT"} \cup OutCategoryCodes)
    => /\ \A key \in InputKeys(self.detail_mode_result) :
             _handle_detail_mode_input(self, key).plays = self.plays
       /\ (/\ self.detail_mode_out_type \notin {None, "K"}
           /\ self.detail_mode_fielders # <<>>)
          => LET after == run(self, ENTER)
             IN  /\ CurrentPlay(after).play_description =
                        Digits(self.detail_mode_fielders)
                        \o <<"/">> \o Chars(self.detail_mode_out_type)
                        \o (IF /\ self.detail_mode_result \in OutCategoryCodes
                               /\ self.detail_mode_result # self.detail_mode_out_type
                            THEN <<"/">> \o Chars(self.detail_mode_result)
                            ELSE <<>>)
                 /\ after.mode = "detail"
                 /\ after.modifier_selection_active
                 /\ after.hit_location_active

\* the ground ball double play 6-4-3 is committed and the Hit Location phase
\* is open
C14_GroundBallDoublePlay ==
    /\ CurrentPlay(self).play_description =
          <<"6", "4", "3", "/", "G", "/", "G", "D", "P">>
    /\ self.detail_mode_fielders = <<6, 4, 3>>
    /\ self.mode = "detail"
    /\ self.hit_location_active

\* C15: with the out subtype strikeout the fielder sequence is optional: the
\* finalize key commits "K" followed by the fielder digits entered, "K" alone
\* when none was entered
C15_StrikeoutFinalize ==
    (/\ self.mode = "detail"
     /\ ~self.modifier_selection_active
     /\ self.detail_mode_result \in {"OUT"} \cup OutCategoryCodes
     /\ self.detail_mode_out_type = "K")
    => CurrentPlay(run(self, ENTER)).play_description =
          <<"K">> \o Digits(self.detail_mode_fielders)

\* the out builder holds the subtype strikeout and no fielder, on a record
\* without a result
C15_StrikeoutNoFielder ==
    /\ self.mode = "detail"
    /\ ~self.modifier_selection_active
    /\ self.detail_mode_result = "OUT"
    /\ self.detail_mode_out_type = "K"
    /\ self.detail_mode_fielders = <<>>
    /\ CurrentPlay(self).play_description = <<>>

\* C16: the finalize key of the pickoff builder commits PO{base}({fielders})
\* for a pickoff with a fielder sequence, PO{base}(E{fielder}) for the error
\* variant, POCS{base}({fielders}) and CS{base}({fielders}) with base 2, 3 or
\* H; it commits nothing for POCS or CS without a fielder, nor for PO without
\* a base or with neither a fielder sequence nor an error fielder
C16_PickoffCommit ==
    (/\ self.mode = "detail"
     /\ ~self.modifier_selection_active
     /\ self.detail_mode_result \in {"PO", "POCS", "CS"})
    => LET after == run(self, ENTER)
           code == Chars(self.detail_mode_result)
           base == self.detail_pickoff_base
           error == self.detail_pickoff_error_fielder
           fielders == Digits(self.detail_pickoff_fielders)
           complete ==
               /\ base # None
               /\ IF self.detail_mode_result = "PO"
                  THEN error # 0 \/ fielders # <<>>
                  ELSE fielders # <<>>
       IN  IF complete
           THEN /\ CurrentPlay(after).play_description =
                      IF self.detail_mode_result = "PO" /\ error # 0
                      THEN code \o <<base, "(", "E", IntToChar(error), ")">>
                      ELSE code \o <<base, "(">> \o fielders \o <<")">>
                /\ self.detail_mode_result = "PO" => base \in {"1", "2", "3"}
                /\ self.detail_mode_result # "PO" => base \in {"2", "3", "H"}
           ELSE after.plays = self.plays

\* the pickoff at second by fielders 1 and 4 is committed
C16_PickoffAtSecond ==
    /\ CurrentPlay(self).play_description = <<"P", "O", "2", "(", "1", "4", ")">>
    /\ CurrentPlay(self).edited
    /\ self.mode = "pitch"

\* the BK / DI / PB / WP builder is open, entered from play mode
AdvanceBuilderOpen ==
    /\ self.mode = "detail"
    /\ ~self.modifier_selection_active
    /\ self.detail_mode_result \in {"BK", "DI", "PB", "WP"}
    /\ ~self.detail_mode_from_pitch_pb_wp

\* the finalize key commits {CODE}. and the tokens joined by ";" in the order
\* they were entered, and commits nothing when there is no token
AdvanceCommit ==
    LET after == run(self, ENTER)
    IN  IF self.runner_tokens # <<>>
        THEN CurrentPlay(after).play_description =
                Chars(self.detail_mode_result) \o <<".">>
                \o Join(self.runner_tokens, <<";">>)
        ELSE after.plays = self.plays

\* every key leaves the tokens as they are or adds one token of the set at
\* their end
AdvanceTokensFrom(allowed) ==
    \A key \in InputKeys(self.detail_mode_result) :
        LET after == _handle_detail_mode_input(self, key)
        IN  \/ after.runner_tokens = self.runner_tokens
            \/ \E token \in allowed :
                  after.runner_tokens = Append(self.runner_tokens, token)

\* {from}-{to} for a runner on base
RunnerTokens == {<<from, "-", to>> : from \in {"1", "2", "3"}, to \in {"2", "3", "H"}}

\* B-{to} for the batter
BatterTokens == {<<"B", "-", to>> : to \in {"1", "2", "3", "H"}}

StolenBaseCode(targets) ==
    CASE targets = {"2"} -> <<"S", "B", "2">>
      [] targets = {"3"} -> <<"S", "B", "3">>
      [] targets = {"H"} -> <<"S", "B", "H">>
      [] targets = {"2", "3"} -> <<"S", "B", "2", ";", "S", "B", "3">>
      [] targets = {"2", "H"} -> <<"S", "B", "2", ";", "S", "B", "H">>
      [] targets = {"3", "H"} -> <<"S", "B", "3", ";", "S", "B", "H">>
      [] targets = {"2", "3", "H"} ->
            <<"S", "B", "2", ";", "S", "B", "3", ";", "S", "B", "H">>
      [] OTHER -> <<>>

\* C18: the stolen base builder starts with no base, every toggle key flips
\* the membership of its base and of no other (so the set holds the bases
\* toggled an odd number of times), and the finalize key commits the tokens
\* SB2, SB3, SBH of the set joined by ";" in the order 2, 3, H, a function of
\* the set alone; with the empty set it commits nothing
C18_StolenBaseToggles ==
    /\ self.mode = "play" => _enter_detail_mode(self, "SB").sb_targets = {}
    /\ (/\ self.mode = "detail"
        /\ ~self.modifier_selection_active
        /\ self.detail_mode_result = "SB")
       => /\ \A key \in {"2", "3", "4", "h"} :
                LET base == IF key \in {"4", "h"} THEN "H" ELSE key
                    after == _handle_detail_mode_input(self, key)
                IN  /\ (base \in after.sb_targets) = (base \notin self.sb_targets)
                    /\ after.sb_targets \ {base} = self.sb_targets \ {base}
          /\ LET after == run(self, ENTER)
             IN  IF self.sb_targets = {} THEN after.plays = self.plays
                 ELSE CurrentPlay(after).play_description =
                         StolenBaseCode(self.sb_targets)

\* the steals of second and home are committed
C18_StealsOfSecondAndHome ==
    /\ CurrentPlay(self).play_description = <<"S", "B", "2", ";", "S", "B", "H">>
    /\ CurrentPlay(self).edited
    /\ self.mode = "pitch"

\* the stages of the out-advancing builder when key is delivered by press:
\* runner, action, destination, and for a thrown-out runner a non-empty
\* fielder sequence closed by the finalize key; a completed stage sequence
\* adds one token at the end, {from}-{to} or {from}X{to}({fielders})
OutAdvancingStages(press(_, _)) ==
    /\ self.oa_stage = "choose_runner"
          => \A key \in {"1", "2", "3"} :
                /\ press(self, key).oa_stage = "choose_action"
                /\ press(self, key).oa_from_base = key
                /\ press(self, key).runner_tokens = self.runner_tokens
    /\ self.oa_stage = "choose_action"
          => \A key \in {"-", "x"} :
                /\ press(self, key).oa_stage = "choose_dest"
                /\ press(self, key).oa_out = (key = "x")
                /\ press(self, key).runner_tokens = self.runner_tokens
    /\ self.oa_stage = "choose_dest"
          => \A key \in {"2", "3", "4", "h"} :
                LET to == IF key \in {"4", "h"} THEN "H" ELSE key
                    next == [b \in {"1", "2", "3"} |->
                                IF b = "1" THEN "2" ELSE IF b = "2" THEN "3" ELSE "H"]
                    after == press(self, key)
                IN  IF next[self.oa_from_base] # to
                    THEN after.runner_tokens = self.runner_tokens
                    ELSE IF self.oa_out
                    THEN /\ after.oa_stage = "choose_fielders"
                         /\ after.runner_tokens = self.runner_tokens
                    ELSE /\ after.oa_stage = "choose_runner"
                         /\ after.runner_tokens =
                               Append(self.runner_tokens,
                                      <<self.oa_from_base, "-", to>>)
    /\ self.oa_stage = "choose_fielders"
          => LET after == press(self, ENTER)
             IN  IF self.oa_fielders = <<>>
                 THEN after.runner_tokens = self.runner_tokens
                 ELSE /\ after.oa_stage = "choose_runner"
                      /\ after.runner_tokens =
                            Append(self.runner_tokens,
                                   <<self.oa_from_base, "X", self.oa_dest, "(">>
                                   \o Digits(self.oa_fielders) \o <<")">>)

\* C19: the out-advancing builder proceeds in the stages runner, action,
\* destination and, for a thrown-out runner only, a non-empty fielder
\* sequence closed by the finalize key; an advance adds the token
\* {from}-{to}, a thrown-out runner {from}X{to}({fielders}); finalizing with
\* at least one completed token commits "OA." and the tokens joined by ";"
\* in entry order, so that a partially staged runner contributes nothing
C19_OutAdvancingStages ==
    (/\ self.mode = "detail"
     /\ ~self.modifier_selection_active
     /\ self.detail_mode_result = "OA")
    => /\ OutAdvancingStages(run)
       /\ (self.oa_stage # "choose_fielders" /\ self.runner_tokens # <<>>)
             => CurrentPlay(run(self, ENTER)).play_description =
                   <<"O", "A", ".">> \o Join(self.runner_tokens, <<";">>)

\* the out-advancing builder has its runner and waits for the action key
C19_WaitingForAction ==
    /\ self.mode = "detail"
    /\ ~self.modifier_selection_active
    /\ self.detail_mode_result = "OA"
    /\ self.oa_stage = "choose_action"
    /\ self.oa_from_base = "2"

(***************************************************************************)
(* SpecModifier: a single committed through the hit builder, then the      *)
(* auxiliary modifier phase: groups, coded and parametrized modifiers, the *)
(* Hit Location and Advance Runner builders.                               *)
(***************************************************************************)
MaxModifierDesc == 8

ModifierInit == \E plays \in HitGames : self = NewEditor(plays)

\* the keys pressed in the hit builder and in the modifier phase
ModifierKeys(s) ==
    IF ~s.modifier_selection_active THEN {"g", "6", "7"}
    ELSE {"a", "b", "e", "t", "h", "r", "0", "2", "6"}

\* one turn of the loop of run(), the result staying short
ModifierPress(key) ==
    /\ Press(key, MaxUndo)
    /\ Len(CurrentPlay(self').play_description) <= MaxModifierDesc

\* the mode is cycled while the record has not been edited
ModifierTab ==
    /\ ~CurrentPlay(self).edited
    /\ ModifierPress("tab")

ModifierEnter == ModifierPress(ENTER)

\* the single is chosen for a record that has no result yet
ModifierCategory ==
    /\ self.mode = "play"
    /\ CurrentPlay(self).play_description = <<>>
    /\ ModifierPress("1")

ModifierDetail ==
    /\ self.mode = "detail"
    /\ \E key \in ModifierKeys(self) : ModifierPress(key)

ModifierNext ==
    \/ ModifierTab
    \/ ModifierEnter
    \/ ModifierCategory
    \/ ModifierDetail

SpecModifier == ModifierInit /\ [][ModifierNext]_vars

(***************************************************************************)
(* C21: the primary infielder's digit before the first Hit Location        *)
(***************************************************************************)
\* the code the Hit Location builder holds, as its finalize key appends it
EnteredLocation(s) ==
    s.hit_location_positions \o s.hit_location_suffix \o s.hit_location_depth
    \o (IF s.hit_location_foul THEN <<"F">> ELSE <<>>)

\* what follows the committed hit ("S6/G") in a result
AfterHit(desc) == SubSeq(desc, Find(desc, "/") + 2, Len(desc))

\* nothing but coded modifiers without a digit follows the hit: no Hit
\* Location was appended yet
NoLocationYet(desc) == \A i \in 1..Len(AfterHit(desc)) : ~IsDigit(AfterHit(desc)[i])

\* a Hit Location was appended right after the hit
LocationAppended(desc) == AfterHit(desc) # <<>> /\ IsDigit(AfterHit(desc)[1])

\* the Hit Location builder of the modifier phase holds a position
LocationEntered ==
    /\ self.mode = "detail"
    /\ self.modifier_selection_active
    /\ self.hit_location_active
    /\ self.hit_location_positions # <<>>
    /\ Contains(CurrentPlay(self).play_description, "/")

\* C21: the first Hit Location appended to a committed hit is prefixed with the
\* digit of the primary fielder exactly when that is an infielder (1-6),
\* whatever modifiers were appended before it; a later Hit Location is never
\* prefixed, and nothing is prefixed for an outfielder or for no fielder
C21_HitLocationPrefix ==
    LocationEntered =>
        LET desc == CurrentPlay(self).play_description
            f == _extract_primary_fielder_from_play_description(desc)
            code == EnteredLocation(self)
            appended == Appended(self, run(self, ENTER))
        IN  /\ NoLocationYet(desc) =>
                appended = (IF f \in 1..6 THEN <<IntToChar(f)>> ELSE <<>>) \o code
            /\ LocationAppended(desc) => appended = code
            /\ f \notin 1..6 => appended = code

\* a Hit Location is about to be appended to a single to the shortstop that
\* carries a coded modifier but no Hit Location yet
C21_LocationAfterModifier ==
    /\ LocationEntered
    /\ _extract_primary_fielder_from_play_description(
           CurrentPlay(self).play_description) = 6
    /\ AfterHit(CurrentPlay(self).play_description) # <<>>
    /\ NoLocationYet(CurrentPlay(self).play_description)

(***************************************************************************)
(* C22: coded and parametrized modifiers                                   *)
(***************************************************************************)
\* a group of coded modifiers is open and no parameter is being asked for
InCodedGroup ==
    /\ self.mode = "detail"
    /\ self.modifier_selection_active
    /\ self.selected_modifier_group \notin {None, "h", "r"}
    /\ self.modifier_param_request = NoParamRequest

\* a parametrized modifier waits for its fielder digit or base
AwaitingParameter ==
    /\ self.mode = "detail"
    /\ self.modifier_selection_active
    /\ self.modifier_param_request # NoParamRequest

Parametrized == {<<"E", "$">>, <<"R", "$">>, <<"T", "H", "%">>}

MaxFinalize == 3

RECURSIVE Finalize(_, _)
\* the editor after n presses of the finalize key
Finalize(s, n) == IF n = 0 THEN s ELSE Finalize(run(s, ENTER), n - 1)

InModifierPhase == self.mode = "detail" /\ self.modifier_selection_active

\* C23: from every state of the modifier phase, pressing the finalize key
\* again and again reaches pitch mode with the builder state reset, on the
\* same record, and the record index does not change on the way
C23_FinalizeReachesPitch ==
    InModifierPhase =>
        \E n \in 1..MaxFinalize :
            /\ Finalize(self, n).mode = "pitch"
            /\ Finalize(self, n) = _reset_detail_mode(Finalize(self, n))
            /\ \A k \in 0..n :
                  Finalize(self, k).current_play_index = self.current_play_index

\* the Hit Location builder of the modifier phase with no position entered
C23_NoPositionEntered ==
    /\ InModifierPhase
    /\ self.selected_modifier_group = "h"
    /\ self.hit_location_active
    /\ self.hit_location_positions = <<>>
    /\ run(self, ENTER) = self

(***************************************************************************)
(* C24: the finalize key on an incomplete builder                          *)
(***************************************************************************)
\* the minimum selections of the open builder are unmet
Incomplete(s) ==
    LET result == s.detail_mode_result
    IN  \/ /\ result \in {"S", "D", "T", "HR", "E", "FC", "SF", "SH"}
           /\ s.detail_mode_hit_type = None
        \/ /\ result \in {"OUT", "GDP", "LDP", "TP", "FO", "UO"}
           /\ \/ s.detail_mode_out_type = None
              \/ s.detail_mode_out_type # "K" /\ s.detail_mode_fielders = <<>>
        \/ /\ result \in {"PO", "POCS", "CS"}
           /\ \/ s.detail_pickoff_base = None
              \/ /\ s.detail_pickoff_fielders = <<>>
                 /\ (result = "PO" => s.detail_pickoff_error_fielder = 0)
        \/ result = "SB" /\ s.sb_targets = {}
        \/ result \in {"BK", "DI", "PB", "WP", "OA"} /\ s.runner_tokens = <<>>

\* the selections of the builders
Selections(s) ==
    <<s.detail_mode_result, s.detail_mode_hit_type, s.detail_mode_out_type,
      s.detail_mode_fielders, s.detail_pickoff_base, s.detail_pickoff_fielders,
      s.detail_pickoff_error_fielder, s.detail_pickoff_awaiting_error_fielder,
      s.runner_tokens, s.advance_from_base, s.sb_targets,
      s.oa_stage, s.oa_from_base, s.oa_out, s.oa_dest, s.oa_fielders>>

InBuilder == self.mode = "detail" /\ ~self.modifier_selection_active

\* C24: the finalize key on a builder whose minimum selections are unmet
\* changes nothing: the records, the selections of the builder, the undo log
\* and the current index are as before and the mode is still detail
C24_IncompleteCommitNoOp ==
    (InBuilder /\ Incomplete(self)) =>
        LET t == run(self, ENTER)
        IN  /\ t.plays = self.plays
            /\ Selections(t) = Selections(self)
            /\ t.undo_history = self.undo_history
            /\ t.current_play_index = self.current_play_index
            /\ t.mode = "detail"

\* the stolen base builder with no base chosen and an empty undo log
C24_EmptyStolenBase ==
    /\ InBuilder
    /\ self.detail_mode_result = "SB"
    /\ self.sb_targets = {}
    /\ self.undo_history = <<>>

(***************************************************************************)
(* C25: undo as the inverse of the preceding operation                     *)
(***************************************************************************)
\* the keys whose operations change a record
MutatingKeys == {"b", "s", "f", "v", ".", "-", "1", "l", "g", "6", ENTER}

\* record i of u is record i of s again, and not edited
Restored(s, u, i) ==
    /\ u.plays[i].pitches = s.plays[i].pitches
    /\ u.plays[i].play_description = s.plays[i].play_description
    /\ u.plays[i].count = s.plays[i].count
    /\ ~u.plays[i].edited

\* C25: for every operation that changes a record, an undo right after it
\* gives the record the pitches, the result and the count it had before the
\* operation, and leaves it not edited
C25_UndoInverse ==
    \A key \in MutatingKeys :
        LET t == run(self, key)
            u == run(t, "x")
        IN  \A i \in 1..Len(self.plays) :
                t.plays[i] # self.plays[i] => Restored(self, u, i)

\* a Hit Location is about to be appended to a single committed just before,
\* whose snapshot is the newest entry of the undo log
C25_LocationAfterCommit ==
    /\ LocationEntered
    /\ CurrentPlay(self).play_description = <<"S", "/", "G">>
    /\ self.undo_history # <<>>
    /\ self.undo_history[Len(self.undo_history)][4] = <<>>

(***************************************************************************)
(* SpecUndo: fouls, clear-pitches and undo on one record, long enough for  *)
(* the undo log to fill up.                                                *)
(***************************************************************************)
MaxUndoLog == 11

UndoInit == \E plays \in HitGames : self = NewEditor(plays)

\* a foul, or all pitches cleared
UndoMutate == \E key \in {"f", "-"} : Press(key, MaxUndoLog)

UndoKey == Press("x", MaxUndoLog)

UndoNext == UndoMutate \/ UndoKey

SpecUndo == UndoInit /\ [][UndoNext]_vars

\* C26: the undo log never holds more than 10 snapshots; a push appends the
\* snapshot of the current record and, on a full log, drops the oldest one, so
\* the log holds the 10 newest snapshots in order; undo on an empty log
\* changes no record, nor the index, the mode or the log
C26_UndoLogBounded ==
    /\ Len(self.undo_history) <= 10
    /\ \A key \in {"f", "-"} :
          LET pushed == Append(self.undo_history,
                               <<0, self.current_play_index, CurrentPlay(self).pitches,
                                 CurrentPlay(self).play_description>>)
          IN  run(self, key).undo_history =
                  IF Len(pushed) > 10 THEN Tail(pushed) ELSE pushed
    /\ self.undo_history = <<>> =>
          /\ run(self, "x").plays = self.plays
          /\ run(self, "x").current_play_index = self.current_play_index
          /\ run(self, "x").mode = self.mode
          /\ run(self, "x").undo_history = <<>>

\* the log is full and its oldest snapshot is no longer the one of the empty
\* record pushed first: a push has evicted it
C26_OldestEvicted ==
    /\ Len(self.undo_history) = 10
    /\ self.undo_history[1][3] # <<>>

(***************************************************************************)
(* C27: the mode after a navigation                                        *)
(***************************************************************************)
\* the rule of the mode on arrival at a record
AutoMode(play, prior_mode) ==
    IF play.pitches = <<>> THEN "pitch"
    ELSE IF play.play_description = <<>> THEN "play"
    ELSE prior_mode

\* t is the editor after a navigation from the current state: the mode follows
\* the rule, and builder state is discarded as by the mode-cycle key when the
\* navigation leaves detail mode
Landed(t) ==
    /\ t.mode = AutoMode(CurrentPlay(t), self.mode)
    /\ (self.mode = "detail" /\ t.mode # "detail") =>
          t = [run(self, "tab") EXCEPT !.mode = t.mode,
                                       !.current_play_index = t.current_play_index]

\* C27: after previous, next, jump to a record, jump to the next incomplete
\* record and the automatic advance after a walk, the mode is pitch if the
\* record arrived at has no pitches, else play if it has no result, else the
\* mode held before; when that leaves detail mode the builder state is
\* discarded exactly as by the mode-cycle key
C27_AutoSetMode ==
    /\ self.current_play_index > 0 => Landed(run(self, "left"))
    /\ self.current_play_index < Len(self.plays) - 1 => Landed(run(self, "right"))
    /\ \A play_number \in 1..Len(self.plays) : Landed(Jump(self, play_number))
    /\ (\E i \in 1..Len(self.plays) : is_incomplete(self.plays[i])) =>
          Landed(run(self, "down"))
    /\ (/\ self.mode = "pitch"
        /\ run(self, "b").current_play_index # self.current_play_index) =>
          Landed(run(self, "b"))

\* in detail mode with the modifier phase open on the first record, the next
\* record having no pitches
C27_LeavingDetail ==
    /\ self.mode = "detail"
    /\ self.modifier_selection_active
    /\ self.current_play_index = 0
    /\ Len(self.plays) = 2
    /\ self.plays[2].pitches = <<>>

(***************************************************************************)
(* SpecIncomplete: the keys of Spec on games of three records, complete    *)
(* ones and ones that lack the count, the pitches or the result.           *)
(***************************************************************************)
CompleteRecord(batter_id) == _parse_play(0, batter_id, <<"0", "0">>, <<"X">>, <<"S", "7">>)

NoCountRecord(batter_id) == _parse_play(0, batter_id, Unknown, <<"X">>, <<"S", "7">>)

NoPitchesRecord(batter_id) == _parse_play(0, batter_id, <<"0", "0">>, <<>>, <<"W">>)

NoResultRecord(batter_id) == _parse_play(0, batter_id, <<"1", "0">>, <<"B">>, <<>>)

IncompleteGames ==
    { <<CompleteRecord("a"), CompleteRecord("b"), CompleteRecord("c")>>,
      <<CompleteRecord("a"), NoCountRecord("b"), CompleteRecord("c")>>,
      <<NoResultRecord("a"), CompleteRecord("b"), CompleteRecord("c")>>,
      <<CompleteRecord("a"), CompleteRecord("b"), NoPitchesRecord("c")>>,
      <<NoCountRecord("a"), CompleteRecord("b"), NoResultRecord("c")>> }

IncompleteInit == \E plays \in IncompleteGames : self = NewEditor(plays)

SpecIncomplete == IncompleteInit /\ [][Next]_vars

\* a record with the unknown count "??" in the file, no pitches or no result
Unfinished(play) ==
    \/ play.original_count = Unknown
    \/ play.pitches = <<>>
    \/ play.play_description = <<>>

\* the index d records after the current one, in circular order
Around(s, d) == (s.current_play_index + d) % Len(s.plays)

\* C28: jump-to-incomplete moves to the first record, going round from the one
\* after the current record up to the current record itself, that has the
\* count "??" in the file, no pitches or no result, and sets the mode by the
\* rule of arrival; with no such record the index and the mode stay
C28_NextIncomplete ==
    LET n == Len(self.plays)
        found == {d \in 1..n : Unfinished(self.plays[Around(self, d) + 1])}
        t == run(self, "down")
    IN  IF found = {}
        THEN t.current_play_index = self.current_play_index /\ t.mode = self.mode
        ELSE /\ \E d \in found :
                  /\ \A e \in found : d <= e
                  /\ t.current_play_index = Around(self, d)
             /\ t.mode = AutoMode(CurrentPlay(t), self.mode)

\* the search passes the end of the game: the current record is the last one
\* and an earlier record is unfinished
C28_WrapsAround ==
    /\ self.current_play_index = Len(self.plays) - 1
    /\ ~Unfinished(self.plays[1])
    /\ ~Unfinished(CurrentPlay(self))
    /\ Unfinished(self.plays[2])

(***************************************************************************)
(* C29: the count written for a record loaded with the count "??"          *)
(***************************************************************************)
\* the count the record must be written with
WrittenCount(play) ==
    IF play.edited /\ play.play_description # <<>> THEN play.count ELSE Unknown

\* C29: a record loaded with the count "??" is written with its current
\* computed count exactly when it is edited and has a result, and with "??"
\* otherwise; this is so for the file as it stands whenever it was written,
\* and the computed count is never "??" itself
C29_UnknownCountWritten ==
    \A i \in 1..Len(self.plays) :
        self.plays[i].original_count = Unknown =>
            /\ _write_game(self.plays)[i].count = WrittenCount(self.plays[i])
            /\ self.disk # <<>> => self.disk[i].count = WrittenCount(self.plays[i])
            /\ self.plays[i].count # Unknown

\* a record loaded with "??" was struck out and written with the count 0-2
C29_StrikeoutWritten ==
    /\ self.plays[1].original_count = Unknown
    /\ self.plays[1].edited
    /\ self.plays[1].play_description = <<"K">>
    /\ self.disk # <<>>
    /\ self.disk[1].count = <<"0", "2">>

(***************************************************************************)
(* C30: every change of a record is written within its key event           *)
(***************************************************************************)
\* the keys of the pitch, result, builder and modifier handlers, clear and undo
PersistKeys ==
    {"b", "s", "f", "v", ".", "-", "x", "1", "2", "6", "l", "g", "a", "e", "h",
     "r", "t", "0", "tab", ENTER}

\* C30: a key event that changes a record's pitches, result, count or edited
\* flag writes the game before the next key is read: after every key that
\* changed a record the file holds the play lines of the records as they are,
\* and in every state the file is either current or was never written while
\* no record has been edited
C30_ChangesPersisted ==
    /\ \A key \in PersistKeys :
          run(self, key).plays # self.plays =>
              run(self, key).disk = _write_game(run(self, key).plays)
    /\ \/ self.disk = _write_game(self.plays)
       \/ /\ self.disk = <<>>
          /\ \A i \in 1..Len(self.plays) : ~self.plays[i].edited

\* a coded modifier was appended in the modifier phase and is in the file
C30_ModifierWritten ==
    /\ InModifierPhase
    /\ self.selected_modifiers # <<>>
    /\ self.disk # <<>>
    /\ EndsWith(self.disk[self.current_play_index + 1].play_description,
                <<"/">> \o self.selected_modifiers[Len(self.selected_modifiers)])

(***************************************************************************)
(* C31: the keys of the main loop and the keys of the modes                *)
(***************************************************************************)
\* the keys run() handles before it looks at the mode
NavigationKeys == {"q", "left", "right", "down", "tab", "x", "j", "-"}

\* C31: no key the main loop handles itself is a pitch key or a category key,
\* and in no state of a builder or of the modifier phase would the handler of
\* that builder react to such a key, so that every key of a mode reaches the
\* handler of the mode
C31_NavigationKeysExclusive ==
    /\ NavigationKeys \cap DOMAIN PITCH_HOTKEYS = {}
    /\ NavigationKeys \cap DOMAIN PLAY_HOTKEYS = {}
    /\ (self.mode = "detail" /\ ~self.modifier_selection_active) =>
          \A key \in NavigationKeys : _handle_detail_mode_input(self, key) = self
    /\ (self.mode = "detail" /\ self.modifier_selection_active) =>
          \A key \in NavigationKeys : _handle_modifier_mode_input(self, key) = self

\* the out-advancing builder waits for the action of the runner on first,
\* whose keys are "-" and "x"
C31_ActionKeysAwaited ==
    /\ self.mode = "detail"
    /\ ~self.modifier_selection_active
    /\ self.detail_mode_result = "OA"
    /\ self.oa_stage = "choose_action"
    /\ _handle_detail_mode_input(self, "x") # self
    /\ run(self, "x").oa_stage = "choose_action"

(***************************************************************************)
(* C32: a builder commits to the record it was started on                  *)
(***************************************************************************)
\* after a jump to record number r in detail mode, the finalize key changes
\* that record
CommitsAfterJump(r) ==
    LET t == Jump(self, r)
    IN  /\ t.mode = "detail"
        /\ run(t, ENTER).plays[r] # t.plays[r]

\* C32: the selections of a builder are committed only to the record that was
\* current when they were made: whatever record is navigated to in detail
\* mode, the finalize key commits the selections held now to at most one
\* record, the one they were made on
C32_CommitToOwnRecord ==
    (self.mode = "detail" /\ ~self.modifier_selection_active) =>
        \A r1, r2 \in 1..Len(self.plays) :
            (CommitsAfterJump(r1) /\ CommitsAfterJump(r2)) => r1 = r2

\* the hit builder holds a single with its shape on the first of three
\* complete records
C32_BuilderAmongCompleteRecords ==
    /\ self.mode = "detail"
    /\ ~self.modifier_selection_active
    /\ self.detail_mode_result = "S"
    /\ self.detail_mode_hit_type = "G"
    /\ self.current_play_index = 0
    /\ \A i \in 1..Len(self.plays) :
          self.plays[i].pitches # <<>> /\ self.plays[i].play_description # <<>>

(***************************************************************************)
(* C33: passed ball and wild pitch chosen as a category                    *)
(***************************************************************************)
\* the editor after the category key, the runner on first advanced to second,
\* and the finalize key
CategoryAdvance(s, key) == run(run(run(run(s, key), "1"), "2"), ENTER)

\* C33: when passed ball or wild pitch is chosen with its category key in play
\* mode, finalizing the builder makes CODE. and the tokens the whole result of
\* the record, never a +CODE. suffix of the result it had, also after a
\* builder opened by the wild pitch or passed ball pitch key was abandoned
C33_CategoryResultWhole ==
    self.mode = "play" =>
        \A key \in {"a", "w"} :
            CurrentPlay(CategoryAdvance(self, key)).play_description =
                Chars(PLAY_HOTKEYS[key]) \o <<".", "1", "-", "2">>

\* play mode after a builder opened by a pitch key was abandoned
C33_AbandonedPitchBuilder ==
    /\ self.mode = "play"
    /\ self.detail_mode_from_pitch_pb_wp
    /\ self.detail_mode_result = None
    /\ CurrentPlay(self).play_description # <<>>

(***************************************************************************)
(* C34: the count written after the pitches of a record changed            *)
(***************************************************************************)
\* a count of two digits
KnownCount(count) == Len(count) = 2 /\ IsDigit(count[1]) /\ IsDigit(count[2])

\* C34: when a key changes the pitches of a record that was loaded with a
\* known two-digit count, the count the writer has written for the record is
\* the count the record now displays
C34_WrittenCountCurrent ==
    \A key \in {"b", "s", "f", "-", "x"} :
        LET t == run(self, key)
        IN  \A i \in 1..Len(self.plays) :
                (/\ KnownCount(self.plays[i].original_count)
                 /\ t.plays[i].pitches # self.plays[i].pitches)
                => t.disk[i].count = t.plays[i].count

\* a record loaded with the count 00 now displays one strike
C34_CountMoved ==
    /\ CurrentPlay(self).original_count = <<"0", "0">>
    /\ CurrentPlay(self).count = <<"0", "1">>
    /\ CurrentPlay(self).pitches = <<"F">>
    /\ self.disk # <<>>

(***************************************************************************)
(* SpecSuffix: the keys of SpecPitch on a game whose first record is a     *)
(* strikeout with a wild pitch on strike three, the batter reaching first. *)
(***************************************************************************)
SuffixGames ==
    { <<_parse_play(0, "a", <<"0", "2">>, <<"S", "S", "S", ".">>,
                    <<"K", "+", "W", "P", ".", "B", "-", "1">>),
        _parse_play(0, "b", <<"0", "0">>, <<>>, <<>>)>> }

SuffixInit == \E plays \in SuffixGames : self = NewEditor(plays)

SpecSuffix == SuffixInit /\ [][PitchNext]_vars

\* the "+PB." or "+WP." suffix of a strikeout result, empty if it has none
StrikeoutSuffix(desc) ==
    IF /\ StartsWith(desc, <<"K", "+">>)
       /\ \/ StartsWith(Tail(desc), <<"+", "P", "B", ".">>)
          \/ StartsWith(Tail(desc), <<"+", "W", "P", ".">>)
    THEN Tail(desc) ELSE <<>>

\* C35: once the result of a record is a strikeout with a +PB. or +WP.
\* suffix, a further pitch key leaves the suffix at the end of the result
C35_SuffixKept ==
    (self.mode = "pitch" /\ StrikeoutSuffix(CurrentPlay(self).play_description) # <<>>) =>
        \A key \in BallStrikeKeys :
            EndsWith(run(self, key).plays[self.current_play_index + 1].play_description,
                     StrikeoutSuffix(CurrentPlay(self).play_description))

\* pitch mode on the record K+WP.B-1
C35_StrikeoutWithWildPitch ==
    /\ self.mode = "pitch"
    /\ CurrentPlay(self).play_description = <<"K", "+", "W", "P", ".", "B", "-", "1">>
    /\ CurrentPlay(run(self, "f")).play_description = <<"K">>

(***************************************************************************)
(* C36: the edited flag of a changed record                                *)
(***************************************************************************)
\* C36: every record whose pitches or result differ from those it was loaded
\* with (the session loads the one game of HitGames) is marked edited
C36_ChangedIsEdited ==
    \A loaded \in HitGames :
        \A i \in 1..Len(self.plays) :
            (\/ self.plays[i].pitches # loaded[i].pitches
             \/ self.plays[i].play_description # loaded[i].play_description)
            => self.plays[i].edited

\* two fouls were entered and the log holds their two snapshots
C36_TwoEdits ==
    /\ CurrentPlay(self).pitches = <<"F", "F">>
    /\ Len(self.undo_history) = 2
    /\ CurrentPlay(self).edited
    /\ ~CurrentPlay(run(self, "x")).edited

(***************************************************************************)
(* C37: what undo leaves alone                                             *)
(***************************************************************************)
\* C37: undo changes the pitches, the result, the count and the edited flag of
\* the record its snapshot names, drops that snapshot from the log, and
\* changes nothing else: no other record, not the current index, the mode or
\* any builder state; after an automatic walk the editor stays on the record
\* it had advanced to
C37_UndoFrame ==
    self.undo_history # <<>> =>
        LET before == _display_interface(self)
            after == run(self, "x")
            state == self.undo_history[Len(self.undo_history)]
            i == state[2] + 1
        IN  /\ \A j \in 1..Len(self.plays) : j # i => after.plays[j] = self.plays[j]
            /\ after.plays[i] = [self.plays[i] EXCEPT
                                    !.pitches = state[3],
                                    !.play_description = state[4],
                                    !.count = after.plays[i].count,
                                    !.edited = FALSE]
            /\ after.undo_history = SubSeq(self.undo_history, 1, Len(self.undo_history) - 1)
            /\ [after EXCEPT !.plays = before.plays,
                             !.undo_history = before.undo_history,
                             !.disk = before.disk] = before

\* the batter of the first record was walked and the editor has advanced: the
\* newest snapshot is of a record other than the current one
C37_AfterAutomaticWalk ==
    /\ self.undo_history # <<>>
    /\ self.undo_history[Len(self.undo_history)][2] = 0
    /\ self.current_play_index = 1
    /\ self.plays[1].play_description = <<"W">>

(***************************************************************************)
(* C38: a builder starts without selections                                *)
(***************************************************************************)
\* the selections of a builder just opened for the category
FreshSelections(result) ==
    <<result, None, None, <<>>, None, <<>>, 0, FALSE, <<>>, None, {},
      "choose_runner", None, FALSE, None, <<>>>>

\* C38: when a category key that needs a builder is accepted in play mode, or
\* the wild pitch or passed ball key in pitch mode, the builder that opens has
\* its category and no other selection: no hit shape, no out subtype, no
\* fielders, no pickoff base, fielders or error, no runner tokens, no stolen
\* base, the out-advancing stage at its start, and the modifier phase closed
C38_BuilderStartsEmpty ==
    /\ self.mode = "play" =>
          \A key \in DOMAIN PLAY_HOTKEYS \ NavigationKeys :
              PLAY_HOTKEYS[key] \in DetailResults =>
                  /\ Selections(run(self, key)) = FreshSelections(PLAY_HOTKEYS[key])
                  /\ ~run(self, key).modifier_selection_active
                  /\ run(self, key).mode = "detail"
    /\ self.mode = "pitch" =>
          /\ Selections(run(self, "v")) = FreshSelections("WP")
          /\ Selections(run(self, "a")) = FreshSelections("PB")

\* play mode reached again after an out with two fielders was committed
C38_AfterCommittedOut ==
    /\ self.mode = "play"
    /\ CurrentPlay(self).edited
    /\ Len(CurrentPlay(self).play_description) >= 2
    /\ IsDigit(CurrentPlay(self).play_description[1])
    /\ IsDigit(CurrentPlay(self).play_description[2])

(***************************************************************************)
(* C39: the ball-in-play marker                                            *)
(***************************************************************************)
\* the number of ball-in-play markers in a pitch sequence
XCount(pitches) == Cardinality({i \in 1..Len(pitches) : pitches[i] = "X"})

\* the keys of the hit, sacrifice and out builders, and the commit key
MarkerKeys == {"g", "l", "f", "k", "1", "3", "4", "6", ENTER}

C39_StrikeoutCommit ==
    /\ self.mode = "detail"
    /\ ~self.modifier_selection_active
    /\ self.detail_mode_out_type = "K"
    /\ run(self, ENTER).modifier_selection_active

(***************************************************************************)
(* C40: the clear key                                                      *)
(***************************************************************************)
\* the starting count of the current record as a display count: the inherited
\* count when it is a count, 0-0 otherwise
StartingDisplayCount(s) ==
    LET start == _starting_count_for_play_index(s.plays, s.current_play_index)
    IN  IF /\ Len(start) = 2
           /\ start[1] \in {"0", "1", "2", "3"}
           /\ start[2] \in {"0", "1", "2"}
        THEN start ELSE <<"0", "0">>

\* the undo log of s after one snapshot of its current record
LogAfterSnapshot(s) ==
    LET pushed == Append(s.undo_history,
                         <<0, s.current_play_index, CurrentPlay(s).pitches,
                           CurrentPlay(s).play_description>>)
    IN  IF Len(pushed) > 10 THEN Tail(pushed) ELSE pushed

\* C40: the clear key in pitch mode empties the pitches of the current record
\* and resets its count to its starting count, the result unchanged; in play
\* mode it empties the result, pitches and count unchanged; in detail mode it
\* changes nothing; an effective clear pushes one undo snapshot, and no other
\* record changes
C40_ClearFrame ==
    LET t == run(self, "-")
        i == self.current_play_index + 1
    IN  /\ t.current_play_index = self.current_play_index
        /\ t.mode = self.mode
        /\ \A j \in 1..Len(self.plays) : j # i => t.plays[j] = self.plays[j]
        /\ self.mode = "pitch" =>
              /\ t.plays[i] = [self.plays[i] EXCEPT !.pitches = <<>>,
                                                    !.count = StartingDisplayCount(self),
                                                    !.edited = TRUE]
              /\ t.undo_history = LogAfterSnapshot(self)
        /\ self.mode = "play" =>
              /\ t.plays[i] = [self.plays[i] EXCEPT !.play_description = <<>>,
                                                    !.edited = TRUE]
              /\ t.undo_history = LogAfterSnapshot(self)
        /\ self.mode = "detail" =>
              /\ t.plays = self.plays
              /\ t.undo_history = self.undo_history
              /\ t.disk = self.disk
              /\ Selections(t) = Selections(self)
              /\ t.modifier_selection_active = self.modifier_selection_active

\* pitch mode on a record with pitches that continues an at-bat whose first
\* record was loaded with a count field of three digits
C40_OverlongInheritedCount ==
    /\ self.mode = "pitch"
    /\ CurrentPlay(self).pitches # <<>>
    /\ Len(_starting_count_for_play_index(self.plays, self.current_play_index)) = 3
    /\ CurrentPlay(run(self, "-")).count = <<"1", "2">>
====
